---- MODULE Spec2Model ----
(***************************************************************************)
(* A model of the extraction pipeline of pykage2dkg:                       *)
(*   - CallGraphExtractor (src/extractor/call_graph_extractor.py), an      *)
(*     ast.NodeVisitor run step by step over a small syntax tree;          *)
(*   - TypeAnalyzer / SecurityAnalyzer (external tool wrappers);           *)
(*   - EnhancedFunctionExtractor.extract_enhanced, build_enhanced_codefile *)
(*     and walk_python_modules_enhanced (the per-file merge and the walk); *)
(*   - DataFlowAnalyzer, FunctionExtractor and extract_with_libcst;        *)
(*   - extract_analysis_summary and convert_to_enhanced_jsonld             *)
(*     (src/extractor/converter.py), the document-level summary.           *)
(* Each part has its own specification over the shared variables; the      *)
(* variables of the other parts stay at their initial values.              *)
(***************************************************************************)
EXTENDS Integers, Sequences, FiniteSets, TLC

VARIABLES
    \* ---- CallGraphExtractor ----
    code,                  \* the text handed to extract_call_relationships
    pc,                    \* position inside extract_call_relationships
    pos,                   \* next node of the tree the traversal reaches
    stack,                 \* active visit_* frames (node, saved old_* local)
    call_graph,            \* self.call_graph: caller -> set of callees
    current_function,      \* self.current_function
    current_class,         \* self.current_class
    function_definitions,  \* self.function_definitions
    class_definitions,     \* self.class_definitions
    call_details,          \* self.call_details
    cg_result,             \* value returned by extract_call_relationships
    \* ---- TypeAnalyzer / SecurityAnalyzer ----
    env,                   \* what each external tool does when it is run
    tool_pc,               \* which analyzer object has been constructed
    pyright_available,     \* TypeAnalyzer.pyright_available
    mypy_available,        \* TypeAnalyzer.mypy_available
    bandit_available,      \* SecurityAnalyzer.bandit_available
    codeql_available,      \* SecurityAnalyzer.codeql_available
    tool_result,           \* value returned by the last analyze_* call
    tool_env,              \* the environment that call ran in
    repeated,              \* the last call repeated one made in the same env
    \* ---- walk_python_modules_enhanced ----
    tree,                  \* what os.walk(base_path) yields: directories, files
    walk_pc,               \* position inside walk_python_modules_enhanced
    dir_i,                 \* index of the directory the outer loop is at
    file_i,                \* index of the file the inner loop is at
    modules,               \* the local defaultdict(list): directory -> files
    enhanced,              \* outcome of the extract_enhanced call in progress
    walk_result,           \* value returned by walk_python_modules_enhanced
    libcst_build,          \* what the imported libcst package exports
    \* ---- DataFlowAnalyzer ----
    df_code,               \* the text handed to extract_data_flows
    df_pc,                 \* position inside extract_data_flows
    df_pos,                \* next node of the tree the traversal reaches
    df_stack,              \* active visit_* frames (node, saved old_* local)
    data_flows,            \* self.data_flows
    df_current_function,   \* self.current_function of the analyzer
    df_current_class,      \* self.current_class of the analyzer
    function_variables,    \* self.function_variables
    data_dependencies,     \* self.data_dependencies
    df_result,             \* value returned by extract_data_flows
    \* ---- FunctionExtractor / extract_with_libcst ----
    fe_text,               \* the text handed to the last extract call
    classes,               \* self.classes
    functions_outside_classes,  \* self.functions_outside_classes
    fe_result,             \* outcome of the last extract call
    fe_calls,              \* number of extract calls made on the object
    lc_text,               \* the text handed to extract_with_libcst
    lc_result,             \* outcome of the extract_with_libcst call
    \* ---- the summaries: _calculate_risk_level, extract_analysis_summary ----
    sum_pc,                \* which of the two functions has been called
    risk_counts,           \* the severity counts handed to _calculate_risk_level
    risk_level,            \* the label it returned
    sum_modules,           \* the module list handed to extract_analysis_summary
    sum_result,            \* the summary it returned
    analysis_metadata      \* metadata['analysisMetadata'] of the converted walk

cgVars == <<code, pc, pos, stack, call_graph, current_function, current_class,
            function_definitions, class_definitions, call_details, cg_result>>

toolVars == <<env, tool_pc, pyright_available, mypy_available, bandit_available,
              codeql_available, tool_result, tool_env, repeated>>

walkVars == <<tree, walk_pc, dir_i, file_i, modules, enhanced, walk_result,
              libcst_build>>

dfVars == <<df_code, df_pc, df_pos, df_stack, data_flows, df_current_function,
            df_current_class, function_variables, data_dependencies, df_result>>

feVars == <<fe_text, classes, functions_outside_classes, fe_result, fe_calls,
            lc_text, lc_result>>

sumVars == <<sum_pc, risk_counts, risk_level, sum_modules, sum_result,
             analysis_metadata>>

vars == <<cgVars, toolVars, walkVars, dfVars, feVars, sumVars>>

\* what the steps of one part leave alone
notCallGraph == <<toolVars, walkVars, dfVars, feVars, sumVars>>

notTools == <<cgVars, walkVars, dfVars, feVars, sumVars>>

notWalk == <<cgVars, dfVars, feVars, sumVars, tool_pc, pyright_available, mypy_available,
             bandit_available, codeql_available, tool_result, tool_env, repeated>>

notDataFlow == <<cgVars, toolVars, walkVars, feVars, sumVars>>

notExtractor == <<cgVars, toolVars, dfVars, sumVars, tree, walk_pc, dir_i, file_i, modules,
                  enhanced, walk_result>>

notSummary == <<cgVars, toolVars, walkVars, dfVars, feVars, analysis_metadata>>

(***************************************************************************)
(* Bounds of the model.                                                    *)
(***************************************************************************)
\* largest number of nodes of an enumerated syntax tree
MaxNodes == 3
\* depth of nested visits at which the interpreter raises RecursionError
\* (sys.getrecursionlimit(), scaled to the size of the trees)
RecursionLimit == 3

\* Python's None
NoneVal == "None"

\* identifiers the enumerated programs draw on
Names == {"a", "b"}

(***************************************************************************)
(* Python's insertion-ordered dict: a sequence of [k, v] entries.          *)
(***************************************************************************)
DictKeys(d) == [i \in 1..Len(d) |-> d[i].k]

DictKeySet(d) == {d[i].k : i \in 1..Len(d)}

DictHas(d, key) == key \in DictKeySet(d)

DictGet(d, key) == d[CHOOSE i \in 1..Len(d) : d[i].k = key].v

\* d[key] = val : an existing key keeps its place, a new key goes last
DictSet(d, key, val) ==
    IF DictHas(d, key)
    THEN [i \in 1..Len(d) |-> IF d[i].k = key THEN [k |-> key, v |-> val] ELSE d[i]]
    ELSE Append(d, [k |-> key, v |-> val])

\* defaultdict lookup: a missing key reads as the default
DictGetDefault(d, key, default) == IF DictHas(d, key) THEN DictGet(d, key) ELSE default

SeqToSet(s) == {s[i] : i \in 1..Len(s)}

RECURSIVE SumSeq(_)
SumSeq(s) == IF s = <<>> THEN 0 ELSE Head(s) + SumSeq(Tail(s))

(***************************************************************************)
(* Syntax trees.  A text either fails ast.parse (ok = FALSE) or parses to  *)
(* a tree; the tree's nodes are numbered in the order generic_visit        *)
(* reaches them (pre-order), parent[i] = 0 for a child of the Module.      *)
(* Only the node types the visitor overrides are kept.  field names the    *)
(* field of the parent node a node sits in ("body" unless stated).         *)
(***************************************************************************)
DefNode(kind, name) ==
    [kind |-> kind, name |-> name, func |-> "", id |-> "", value |-> "",
     value_id |-> "", attr |-> "", field |-> "body"]

\* x(...)
CallName(x) ==
    [kind |-> "Call", name |-> "", func |-> "Name", id |-> x, value |-> "",
     value_id |-> "", attr |-> "", field |-> "body"]

\* r.x(...) with r a bare name
CallAttrName(r, x) ==
    [kind |-> "Call", name |-> "", func |-> "Attribute", id |-> "", value |-> "Name",
     value_id |-> r, attr |-> x, field |-> "body"]

\* <expr>.x(...) with a receiver that is not a bare name
CallAttrExpr(x) ==
    [kind |-> "Call", name |-> "", func |-> "Attribute", id |-> "", value |-> "Expr",
     value_id |-> "", attr |-> x, field |-> "body"]

\* f(...)(...) : the callee is itself a call
CallCall ==
    [kind |-> "Call", name |-> "", func |-> "Call", id |-> "", value |-> "",
     value_id |-> "", attr |-> "", field |-> "body"]

\* any other callee expression, e.g. d[k](...)
CallOther ==
    [kind |-> "Call", name |-> "", func |-> "Other", id |-> "", value |-> "",
     value_id |-> "", attr |-> "", field |-> "body"]

\* node placed in field f of its parent: "args" (a default value) or
\* "decorator_list"; generic_visit reaches args, then body, then decorator_list
InField(node, f) == [node EXCEPT !.field = f]

DefKinds == {"ClassDef", "FunctionDef", "AsyncFunctionDef"}

\* the node labels of the enumerated trees
Labels ==
    {DefNode(k, n) : k \in {"ClassDef", "FunctionDef"}, n \in Names}
    \cup {DefNode("AsyncFunctionDef", "a")}
    \cup {CallName(x) : x \in Names}
    \cup {CallAttrName("a", "b"), CallAttrName("b", "a"), CallAttrExpr("a")}
    \cup {CallCall, CallOther}
    \cup {InField(CallName("a"), "decorator_list")}

RECURSIVE Ancestors(_, _)
Ancestors(parent, i) == IF i = 0 THEN {0} ELSE {i} \cup Ancestors(parent, parent[i])

\* parent vectors of the ordered trees with n nodes, numbered in pre-order:
\* the parent of node i is node i-1 or one of its ancestors
ParentSeqs(n) ==
    {p \in [1..n -> 0..n] :
        \A i \in 1..n : p[i] < i /\ p[i] \in Ancestors(p, i - 1)}

\* the place of a field in the order generic_visit goes through them
FieldRank(f) == IF f = "args" THEN 0 ELSE IF f = "body" THEN 1 ELSE 2

\* what the grammar allows: no definition inside a call expression, a call
\* whose callee is a call has that call as its first child, decorators and
\* default values belong to a definition and are reached in field order
WellFormed(nodes, parent) ==
    \A i \in 1..Len(nodes) :
        /\ nodes[i].field = "decorator_list"
              => parent[i] # 0 /\ nodes[parent[i]].kind \in DefKinds
        /\ nodes[i].field = "args"
              => parent[i] # 0 /\ nodes[parent[i]].kind \in DefKinds \ {"ClassDef"}
        /\ \A j \in 1..Len(nodes) :
              i < j /\ parent[i] = parent[j]
                  => FieldRank(nodes[i].field) <= FieldRank(nodes[j].field)
        /\ nodes[i].kind \in DefKinds /\ parent[i] # 0
              => nodes[parent[i]].kind # "Call"
        /\ nodes[i].func = "Call"
              => /\ i + 1 <= Len(nodes)
                 /\ parent[i + 1] = i
                 /\ nodes[i + 1].kind = "Call"

Text(nodes, parent) == [ok |-> TRUE, nodes |-> nodes, parent |-> parent]

\* a text ast.parse rejects, such as "def f(:"
BadText == [ok |-> FALSE, nodes |-> <<>>, parent |-> <<>>]

\* def f(): a(); b.c()
FixtureCalls ==
    Text(<<DefNode("FunctionDef", "f"), CallName("a"), CallAttrName("b", "c")>>,
         <<0, 1, 1>>)

\* class A:
\*     def m(self): return helper()
\* def helper(): return 1
FixtureScenario ==
    Text(<<DefNode("ClassDef", "A"), DefNode("FunctionDef", "m"), CallName("helper"),
           DefNode("FunctionDef", "helper")>>,
         <<0, 1, 2, 0>>)

\* def unused(): pass
FixtureUnused == Text(<<DefNode("FunctionDef", "unused")>>, <<0>>)

\* def fact(n): return fact(n-1) if n else 1
FixtureFact == Text(<<DefNode("FunctionDef", "fact"), CallName("fact")>>, <<0, 1>>)

\* def f(): g()()()()   -- a chain of calls deeper than the recursion limit
FixtureDeep ==
    Text(<<DefNode("FunctionDef", "f"), CallCall, CallCall, CallCall, CallCall,
           CallName("g")>>,
         <<0, 1, 2, 3, 4, 5>>)

\* def ping(): pong()
\* def pong(): ping()
FixtureMutual ==
    Text(<<DefNode("FunctionDef", "ping"), CallName("pong"),
           DefNode("FunctionDef", "pong"), CallName("ping")>>,
         <<0, 1, 0, 3>>)

CalleeNames ==
    <<"c1", "c2", "c3", "c4", "c5", "c6", "c7", "c8", "c9", "c10", "c11", "c12">>

\* def f(): c1(); c2(); ...; c12(); c12()   -- more callees than the top 10 holds
FixtureManyCallees ==
    Text(<<DefNode("FunctionDef", "f")>>
            \o [i \in 1..12 |-> CallName(CalleeNames[i])]
            \o <<CallName("c12")>>,
         <<0>> \o [i \in 1..13 |-> 1])

\* def c1(): g()
\* ...
\* def c10(): g()
\* def c11(): g(); h()                      -- more callers than the top 10 holds
FixtureManyCallers ==
    Text([i \in 1..23 |->
            IF i = 23 THEN CallName("h")
            ELSE IF i % 2 = 1 THEN DefNode("FunctionDef", CalleeNames[(i + 1) \div 2])
            ELSE CallName("g")],
         [i \in 1..23 |-> IF i = 23 THEN 21 ELSE IF i % 2 = 1 THEN 0 ELSE i - 1])

\* class C:
\*     def m(self): self.m()
FixtureSelfCall ==
    Text(<<DefNode("ClassDef", "C"), DefNode("FunctionDef", "m"),
           CallAttrName("self", "m")>>,
         <<0, 1, 2>>)

\* class self:
\*     def m(self): self.m()
FixtureClassNamedSelf ==
    Text(<<DefNode("ClassDef", "self"), DefNode("FunctionDef", "m"),
           CallAttrName("self", "m")>>,
         <<0, 1, 2>>)

\* class C:
\*     def m(self): pass
\* def g(): C.m()
FixtureClassCall ==
    Text(<<DefNode("ClassDef", "C"), DefNode("FunctionDef", "m"),
           DefNode("FunctionDef", "g"), CallAttrName("C", "m")>>,
         <<0, 1, 0, 3>>)

\* @deco()
\* def f(x=dflt()): body()
\* f()
FixtureDecorated ==
    Text(<<DefNode("FunctionDef", "f"), InField(CallName("dflt"), "args"),
           CallName("body"), InField(CallName("deco"), "decorator_list"),
           CallName("f")>>,
         <<0, 1, 1, 1, 0>>)

Fixtures ==
    {FixtureCalls, FixtureScenario, FixtureUnused, FixtureFact, FixtureDeep,
     FixtureMutual, FixtureManyCallees, FixtureManyCallers, FixtureSelfCall,
     FixtureClassNamedSelf, FixtureClassCall, FixtureDecorated}

\* the texts the model hands to the extractors
IsProgram(c) ==
    \/ c \in Fixtures
    \/ c = BadText
    \/ \E n \in 0..MaxNodes : \E p \in ParentSeqs(n) : \E l \in [1..n -> Labels] :
          WellFormed(l, p) /\ c = Text(l, p)

(***************************************************************************)
(* CallGraphExtractor                                                      *)
(***************************************************************************)
\* number of entries mostCalledFunctions / mostCallingFunctions keep
TopN == 10

NumNodes == Len(code.nodes)

\* the node whose visit_* call is innermost (0: the Module)
Top == IF stack = <<>> THEN 0 ELSE stack[Len(stack)].node

\* NodeVisitor.visit dispatches on node i: i is the next child of the
\* innermost active visit, and the interpreter has frames left for it
CanVisit(i) ==
    /\ pc = "visit"
    /\ pos = i
    /\ i <= NumNodes
    /\ code.parent[i] = Top
    /\ Len(stack) < RecursionLimit

\* generic_visit of the innermost node has no child left
ChildrenDone ==
    /\ pc = "visit"
    /\ stack # <<>>
    /\ IF pos > NumNodes THEN TRUE ELSE code.parent[pos] # Top

Pop == SubSeq(stack, 1, Len(stack) - 1)

_get_qualified_name(name) ==
    IF current_class # NoneVal THEN current_class \o "." \o name ELSE name

NoCallInfo == [name |-> "", type |-> NoneVal]

\* a variant that keeps only the final attribute name of every attribute call
extract_call_info_attr_only(node) ==
    IF node.func = "Name" THEN [name |-> node.id, type |-> "function"]
    ELSE IF node.func = "Attribute" THEN [name |-> node.attr, type |-> "attribute_call"]
    ELSE IF node.func = "Call" THEN [name |-> "complex_call", type |-> "chained_call"]
    ELSE NoCallInfo

\* a variant that resolves the receiver `self` to the class being visited
extract_call_info_resolving_self(node) ==
    IF node.func = "Name" THEN [name |-> node.id, type |-> "function"]
    ELSE IF node.func = "Attribute"
    THEN IF node.value = "Name"
         THEN [name |-> (IF node.value_id = "self" /\ current_class # NoneVal
                         THEN current_class ELSE node.value_id) \o "." \o node.attr,
               type |-> "method"]
         ELSE [name |-> node.attr, type |-> "attribute_call"]
    ELSE IF node.func = "Call" THEN [name |-> "complex_call", type |-> "chained_call"]
    ELSE NoCallInfo

_extract_call_info(node) ==
    IF node.func = "Name" THEN [name |-> node.id, type |-> "function"]
    ELSE IF node.func = "Attribute"
    THEN IF node.value = "Name"
         THEN [name |-> node.value_id \o "." \o node.attr, type |-> "method"]
         ELSE [name |-> node.attr, type |-> "attribute_call"]
    ELSE IF node.func = "Call" THEN [name |-> "complex_call", type |-> "chained_call"]
    ELSE NoCallInfo

visit_ClassDef(i) ==
    LET node == code.nodes[i] IN
    /\ CanVisit(i)
    /\ node.kind = "ClassDef"
    /\ stack' = Append(stack, [node |-> i, old |-> current_class])
    /\ current_class' = node.name
    /\ class_definitions' =
          DictSet(class_definitions, node.name,
                  [name |-> node.name, methods |-> <<>>, line |-> i])
    /\ pos' = pos + 1
    /\ UNCHANGED notCallGraph
    /\ UNCHANGED <<code, pc, call_graph, current_function, function_definitions,
                   call_details, cg_result>>

\* the body shared by visit_FunctionDef and visit_AsyncFunctionDef
FunctionDefBody(i, is_async) ==
    LET node == code.nodes[i]
        function_name == _get_qualified_name(node.name)
    IN
    /\ function_definitions' =
          DictSet(function_definitions, function_name,
                  [name |-> node.name, qualifiedName |-> function_name,
                   class |-> current_class, line |-> i, isAsync |-> is_async])
    /\ class_definitions' =
          IF current_class # NoneVal
          THEN LET c == DictGet(class_definitions, current_class) IN
               DictSet(class_definitions, current_class,
                       [c EXCEPT !.methods = Append(@, function_name)])
          ELSE class_definitions
    /\ stack' = Append(stack, [node |-> i, old |-> current_function])
    /\ current_function' = function_name
    /\ pos' = pos + 1
    /\ UNCHANGED notCallGraph
    /\ UNCHANGED <<code, pc, call_graph, current_class, call_details, cg_result>>

visit_FunctionDef(i) ==
    /\ CanVisit(i)
    /\ code.nodes[i].kind = "FunctionDef"
    /\ FunctionDefBody(i, FALSE)

visit_AsyncFunctionDef(i) ==
    /\ CanVisit(i)
    /\ code.nodes[i].kind = "AsyncFunctionDef"
    /\ FunctionDefBody(i, TRUE)

\* a variant that records the calls outside every function under "<module>"
visit_Call_recording_module(i) ==
    LET node == code.nodes[i]
        callee_info == _extract_call_info(node)
        recorded == callee_info # NoCallInfo
        caller == IF current_function # NoneVal THEN current_function ELSE "<module>"
    IN
    /\ CanVisit(i)
    /\ node.kind = "Call"
    /\ call_graph' =
          IF recorded
          THEN DictSet(call_graph, caller,
                       DictGetDefault(call_graph, caller, {})
                           \cup {callee_info.name})
          ELSE call_graph
    /\ call_details' =
          IF recorded
          THEN Append(call_details,
                      [caller |-> caller, callee |-> callee_info.name,
                       calleeType |-> callee_info.type, line |-> i,
                       context |-> current_class])
          ELSE call_details
    /\ stack' = Append(stack, [node |-> i, old |-> NoneVal])
    /\ pos' = pos + 1
    /\ UNCHANGED notCallGraph
    /\ UNCHANGED <<code, pc, current_function, current_class, function_definitions,
                   class_definitions, cg_result>>

visit_Call(i) ==
    LET node == code.nodes[i]
        callee_info == _extract_call_info(node)
        recorded == current_function # NoneVal /\ callee_info # NoCallInfo
    IN
    /\ CanVisit(i)
    /\ node.kind = "Call"
    /\ call_graph' =
          IF recorded
          THEN DictSet(call_graph, current_function,
                       DictGetDefault(call_graph, current_function, {})
                           \cup {callee_info.name})
          ELSE call_graph
    /\ call_details' =
          IF recorded
          THEN Append(call_details,
                      [caller |-> current_function, callee |-> callee_info.name,
                       calleeType |-> callee_info.type, line |-> i,
                       context |-> current_class])
          ELSE call_details
    /\ stack' = Append(stack, [node |-> i, old |-> NoneVal])
    /\ pos' = pos + 1
    /\ UNCHANGED notCallGraph
    /\ UNCHANGED <<code, pc, current_function, current_class, function_definitions,
                   class_definitions, cg_result>>

\* visit_ClassDef after generic_visit: self.current_class = old_class
ReturnClassDef ==
    /\ ChildrenDone
    /\ code.nodes[Top].kind = "ClassDef"
    /\ current_class' = stack[Len(stack)].old
    /\ stack' = Pop
    /\ UNCHANGED notCallGraph
    /\ UNCHANGED <<code, pc, pos, call_graph, current_function, function_definitions,
                   class_definitions, call_details, cg_result>>

\* a variant that clears the current function instead of restoring the saved one
ReturnFunctionDefToNone ==
    /\ ChildrenDone
    /\ code.nodes[Top].kind \in {"FunctionDef", "AsyncFunctionDef"}
    /\ current_function' = NoneVal
    /\ stack' = Pop
    /\ UNCHANGED notCallGraph
    /\ UNCHANGED <<code, pc, pos, call_graph, current_class, function_definitions,
                   class_definitions, call_details, cg_result>>

\* visit_(Async)FunctionDef after generic_visit: self.current_function = old_function
ReturnFunctionDef ==
    /\ ChildrenDone
    /\ code.nodes[Top].kind \in {"FunctionDef", "AsyncFunctionDef"}
    /\ current_function' = stack[Len(stack)].old
    /\ stack' = Pop
    /\ UNCHANGED notCallGraph
    /\ UNCHANGED <<code, pc, pos, call_graph, current_class, function_definitions,
                   class_definitions, call_details, cg_result>>

\* visit_Call after generic_visit
ReturnCall ==
    /\ ChildrenDone
    /\ code.nodes[Top].kind = "Call"
    /\ stack' = Pop
    /\ UNCHANGED notCallGraph
    /\ UNCHANGED <<code, pc, pos, call_graph, current_function, current_class,
                   function_definitions, class_definitions, call_details, cg_result>>

\* call_counts[details["callee"]] += 1 over the call log
RECURSIVE CountCallees(_, _)
CountCallees(details, counts) ==
    IF details = <<>> THEN counts
    ELSE CountCallees(Tail(details),
                      DictSet(counts, Head(details).callee,
                              DictGetDefault(counts, Head(details).callee, 0) + 1))

\* a variant of the sort that puts a later entry before earlier ones of equal count
InsertByCountBeforeTies(s, x) ==
    LET n == Cardinality({j \in 1..Len(s) : s[j].v > x.v}) IN
    SubSeq(s, 1, n) \o <<x>> \o SubSeq(s, n + 1, Len(s))

\* sorted(items, key=lambda x: x[1], reverse=True): stable, equal counts
\* keep the order they had
InsertByCount(s, x) ==
    LET n == Cardinality({j \in 1..Len(s) : s[j].v >= x.v}) IN
    SubSeq(s, 1, n) \o <<x>> \o SubSeq(s, n + 1, Len(s))

RECURSIVE SortedByCount(_, _)
SortedByCount(items, acc) ==
    IF items = <<>> THEN acc
    ELSE SortedByCount(Tail(items), InsertByCount(acc, Head(items)))

FirstN(s, n) == SubSeq(s, 1, IF Len(s) < n THEN Len(s) ELSE n)

AllCalled == UNION {call_graph[i].v : i \in 1..Len(call_graph)}

\* a variant that takes "isolated" as: takes part in no edge at all
IsolatedNoEdge ==
    SelectSeq(DictKeys(function_definitions),
              LAMBDA func : func \notin AllCalled /\ ~DictHas(call_graph, func))

\* a variant that reports every defined function
IsolatedAll == DictKeys(function_definitions)

IsolatedFunctions ==
    SelectSeq(DictKeys(function_definitions), LAMBDA func : func \notin AllCalled)

\* a variant that reports every caller that is called by someone
RecursiveAnyCaller ==
    LET rec == SelectSeq(call_graph, LAMBDA e : e.k \in AllCalled) IN
    [i \in 1..Len(rec) |-> rec[i].k]

RecursiveFunctions ==
    LET rec == SelectSeq(call_graph, LAMBDA e : e.k \in e.v) IN
    [i \in 1..Len(rec) |-> rec[i].k]

_analyze_call_patterns ==
    LET call_counts == CountCallees(call_details, <<>>)
        caller_counts ==
            [i \in 1..Len(call_graph) |->
                [k |-> call_graph[i].k, v |-> Cardinality(call_graph[i].v)]]
    IN
    [mostCalledFunctions |-> FirstN(SortedByCount(call_counts, <<>>), TopN),
     mostCallingFunctions |-> FirstN(SortedByCount(caller_counts, <<>>), TopN),
     recursiveFunctions |-> RecursiveFunctions,
     isolatedFunctions |-> IsolatedFunctions,
     callDepth |-> <<>>]

\* a variant whose callCount counts the logged call occurrences of the caller
SuccessBundleCountingOccurrences ==
    [type |-> "CallGraph",
     relationships |->
        [i \in 1..Len(call_graph) |->
            [type |-> "FunctionCall",
             caller |-> call_graph[i].k,
             callees |-> call_graph[i].v,
             callCount |-> Cardinality({k \in 1..Len(call_details) :
                                          call_details[k].caller = call_graph[i].k}),
             uniqueCallees |-> Cardinality(call_graph[i].v)]],
     callDetails |-> call_details,
     functions |-> DictKeys(function_definitions),
     classes |-> DictKeys(class_definitions),
     totalRelationships |->
        SumSeq([i \in 1..Len(call_graph) |-> Cardinality(call_graph[i].v)]),
     callPatterns |-> _analyze_call_patterns,
     extractionStatus |-> "success"]

SuccessBundle ==
    [type |-> "CallGraph",
     relationships |->
        [i \in 1..Len(call_graph) |->
            [type |-> "FunctionCall",
             caller |-> call_graph[i].k,
             callees |-> call_graph[i].v,
             callCount |-> Cardinality(call_graph[i].v),
             uniqueCallees |-> Cardinality(call_graph[i].v)]],
     callDetails |-> call_details,
     functions |-> DictKeys(function_definitions),
     classes |-> DictKeys(class_definitions),
     totalRelationships |->
        SumSeq([i \in 1..Len(call_graph) |-> Cardinality(call_graph[i].v)]),
     callPatterns |-> _analyze_call_patterns,
     extractionStatus |-> "success"]

FailedBundle(e) ==
    [type |-> "CallGraph",
     relationships |-> <<>>,
     callDetails |-> <<>>,
     functions |-> <<>>,
     classes |-> <<>>,
     totalRelationships |-> 0,
     callPatterns |-> <<>>,
     error |-> e,
     extractionStatus |-> "failed"]

\* a variant without the handler: the exception leaves the function
Reraise(e) ==
    /\ cg_result' = cg_result
    /\ pc' = "raised"

\* what extract_call_relationships does with an exception raised in its try block
ExceptHandler(e) ==
    /\ cg_result' = FailedBundle(e)
    /\ pc' = "done"

\* a caller invokes extract_call_relationships(code) on the new extractor; the
\* caller is single-threaded, no call of the other extractor is in progress
extract_call_relationships ==
    /\ pc = "idle"
    /\ df_pc = "idle"
    /\ IsProgram(code')
    /\ pc' = "parse"
    /\ UNCHANGED notCallGraph
    /\ UNCHANGED <<pos, stack, call_graph, current_function, current_class,
                   function_definitions, class_definitions, call_details, cg_result>>

\* tree = ast.parse(code) returns
Parse ==
    /\ pc = "parse"
    /\ code.ok
    /\ pc' = "visit"
    /\ UNCHANGED notCallGraph
    /\ UNCHANGED <<code, pos, stack, call_graph, current_function, current_class,
                   function_definitions, class_definitions, call_details, cg_result>>

\* tree = ast.parse(code) raises SyntaxError
ParseError ==
    /\ pc = "parse"
    /\ ~code.ok
    /\ ExceptHandler("SyntaxError")
    /\ UNCHANGED notCallGraph
    /\ UNCHANGED <<code, pos, stack, call_graph, current_function, current_class,
                   function_definitions, class_definitions, call_details>>

\* self.visit(tree) runs out of interpreter frames: the exception unwinds
\* every visit_* frame, none of which restores its saved value
RecursionError ==
    /\ pc = "visit"
    /\ pos <= NumNodes
    /\ code.parent[pos] = Top
    /\ Len(stack) >= RecursionLimit
    /\ stack' = <<>>
    /\ ExceptHandler("RecursionError")
    /\ UNCHANGED notCallGraph
    /\ UNCHANGED <<code, pos, call_graph, current_function, current_class,
                   function_definitions, class_definitions, call_details>>

\* self.visit(tree) returned: build the bundle
Finish ==
    /\ pc = "visit"
    /\ stack = <<>>
    /\ pos > NumNodes
    /\ cg_result' = SuccessBundle
    /\ pc' = "done"
    /\ UNCHANGED notCallGraph
    /\ UNCHANGED <<code, pos, stack, call_graph, current_function, current_class,
                   function_definitions, class_definitions, call_details>>

(***************************************************************************)
(* TypeAnalyzer (src/extractor/type_analyzer.py) and SecurityAnalyzer      *)
(* (src/extractor/security_analyzer.py): wrappers around four external     *)
(* command-line tools.  The environment says, for each tool, what running  *)
(* its command line does:                                                  *)
(*   "absent"   no such binary: subprocess.run raises FileNotFoundError    *)
(*   "broken"   the binary exits non-zero and writes no report             *)
(*   "timeout"  --version answers, the analysis run exceeds its timeout    *)
(*   "garbage"  the run exits 0 and writes a report that does not parse    *)
(*   "ok"       the run writes a well-formed report of findings            *)
(*   "hang"     the binary never terminates, whatever its arguments        *)
(***************************************************************************)
\* largest number of findings in one tool's report
MaxFindings == 2

\* the tools in the order of the loops of _combine_*_results
TypeTools == <<"pyright", "mypy">>

SecurityTools == <<"bandit", "codeql">>

AllTools == {"pyright", "mypy", "bandit", "codeql"}

Behaviours == {"absent", "broken", "timeout", "garbage", "ok", "hang"}

\* the severity words each tool writes in its own report
Severities(tool) ==
    CASE tool = "pyright" -> {"error", "warning"}
      [] tool = "mypy"    -> {"error", "note"}
      [] tool = "bandit"  -> {"HIGH", "MEDIUM", "LOW"}
      [] tool = "codeql"  -> {"error", "note"}

FilesOf(tool) == IF tool = "pyright" THEN {"m.py", "n.py"} ELSE {"m.py"}

Findings(tool) == [file : FilesOf(tool), severity : Severities(tool)]

Reports(tool) == UNION {[1..n -> Findings(tool)] : n \in 0..MaxFindings}

Absent == [b |-> "absent", report |-> <<>>]

Clean == [b |-> "ok", report |-> <<>>]

ToolEnvs(tool) ==
    {[b |-> x, report |-> <<>>] : x \in Behaviours \ {"ok"}}
    \cup {[b |-> "ok", report |-> r] : r \in Reports(tool)}

NoTools == [t \in AllTools |-> Absent]

\* Python's None where a dict is expected, and "no call made yet"
NoneRec == [none |-> TRUE]

NoCall == [called |-> FALSE]

\* `if tool_result and key in tool_result`
HasKey(d, key) == d # NoneRec /\ key \in DOMAIN d

\* subprocess.run([tool, '--version'], capture_output=True, check=True):
\* FileNotFoundError and CalledProcessError are caught and give False
ProbeOk(e) == e.b \notin {"absent", "broken"}

\* the probe passes no timeout to subprocess.run: it waits for the child to
\* exit, however long that takes
ProbeHangs(e) == e.b = "hang"

_check_pyright(world) == ProbeOk(world["pyright"])

_check_mypy(world) == ProbeOk(world["mypy"])

_check_bandit(world) == ProbeOk(world["bandit"])

_check_codeql(world) == ProbeOk(world["codeql"])

_transform_pyright_diagnostics(diagnostics) ==
    [i \in 1..Len(diagnostics) |->
        [type |-> "TypeDiagnostic", file |-> diagnostics[i].file,
         severity |-> diagnostics[i].severity, category |-> "type-checking"]]

\* every failure of the run (TimeoutExpired after timeout=120 included) ends
\* in `except Exception` (or in an empty stdout) and the function falls
\* through to `return None`
_run_pyright(world) ==
    LET e == world["pyright"]
    IN  IF e.b = "ok"
        THEN [tool |-> "pyright",
              diagnostics |-> _transform_pyright_diagnostics(e.report)]
        ELSE NoneRec

\* one stdout line per finding: "error" if "error:" in line else "warning"
MypyLines(report) ==
    [i \in 1..Len(report) |->
        [file |-> report[i].file,
         severity |-> IF report[i].severity = "error" THEN "error" ELSE "warning"]]

\* a run that raises (no binary, timeout) gives None; a run that merely
\* exits non-zero or prints no parsable line gives a result without findings
_run_mypy(world) ==
    LET e == world["mypy"]
    IN  CASE e.b \in {"absent", "timeout", "hang"} -> NoneRec
          [] e.b = "broken"  -> [tool |-> "mypy", diagnostics |-> <<>>, returnCode |-> 2]
          [] e.b = "garbage" -> [tool |-> "mypy", diagnostics |-> <<>>, returnCode |-> 0]
          [] e.b = "ok" ->
                [tool |-> "mypy", diagnostics |-> MypyLines(e.report),
                 returnCode |-> IF e.report = <<>> THEN 0 ELSE 1]

_transform_bandit_results(results) ==
    [i \in 1..Len(results) |->
        [type |-> "SecurityVulnerability", tool |-> "bandit",
         file |-> results[i].file, severity |-> results[i].severity]]

_run_bandit(world) ==
    LET e == world["bandit"]
    IN  IF e.b = "ok"
        THEN [tool |-> "bandit",
              vulnerabilities |-> _transform_bandit_results(e.report)]
        ELSE NoneRec

_transform_codeql_results(sarif_data) ==
    [i \in 1..Len(sarif_data) |->
        [type |-> "SecurityVulnerability", tool |-> "codeql",
         file |-> sarif_data[i].file, severity |-> sarif_data[i].severity]]

\* the only wrapper that reports a failed run as an {"error": ...} object
_run_codeql(world) ==
    LET e == world["codeql"]
    IN  CASE e.b = "absent"  -> [error |-> "FileNotFoundError"]
          [] e.b = "broken"  -> [error |-> "CodeQL database creation failed"]
          [] e.b \in {"timeout", "hang"} -> [error |-> "TimeoutExpired"]
          [] e.b = "garbage" -> [error |-> "JSONDecodeError"]
          [] e.b = "ok" ->
                [tool |-> "codeql",
                 vulnerabilities |-> _transform_codeql_results(e.report),
                 format |-> "sarif"]

\* all diagnostics the summary loop walks over, in loop order
RECURSIVE Gathered(_, _, _)
Gathered(results, tools, key) ==
    IF tools = <<>> THEN <<>>
    ELSE (IF HasKey(results[Head(tools)], key)
          THEN results[Head(tools)][key] ELSE <<>>)
         \o Gathered(results, Tail(tools), key)

\* str.lower() on the severity words that occur
Lower(s) ==
    CASE s = "HIGH" -> "high"
      [] s = "MEDIUM" -> "medium"
      [] s = "LOW" -> "low"
      [] OTHER -> s

\* how many entries of a list carry one of the severities
CountSeverity(s, sev) == Cardinality({i \in 1..Len(s) : Lower(s[i].severity) \in sev})

\* toolsUsed lists every tool a caller passes in, whether or not it ran
combine_type_results_all_tools(results) ==
    LET diags == Gathered(results, TypeTools, "diagnostics")
    IN  [totalErrors |-> Cardinality({i \in 1..Len(diags) : diags[i].severity = "error"}),
         totalWarnings |-> Cardinality({i \in 1..Len(diags) : diags[i].severity # "error"}),
         filesAnalyzed |-> Cardinality({diags[i].file : i \in 1..Len(diags)}),
         toolsUsed |-> TypeTools]

_combine_type_results(results) ==
    LET diags == Gathered(results, TypeTools, "diagnostics")
    IN  [totalErrors |-> Cardinality({i \in 1..Len(diags) : diags[i].severity = "error"}),
         totalWarnings |-> Cardinality({i \in 1..Len(diags) : diags[i].severity # "error"}),
         filesAnalyzed |-> Cardinality({diags[i].file : i \in 1..Len(diags)}),
         toolsUsed |-> SelectSeq(TypeTools, LAMBDA t : results[t] # NoneRec)]

\* a variant whose thresholds are reached by the count itself
calculate_risk_level_inclusive(severity_counts) ==
    IF severity_counts.high > 0 THEN "HIGH"
    ELSE IF severity_counts.medium >= 2 THEN "MEDIUM"
    ELSE IF severity_counts.low >= 5 THEN "LOW"
    ELSE "MINIMAL"

_calculate_risk_level(severity_counts) ==
    IF severity_counts.high > 0 THEN "HIGH"
    ELSE IF severity_counts.medium > 2 THEN "MEDIUM"
    ELSE IF severity_counts.low > 5 THEN "LOW"
    ELSE "MINIMAL"

_combine_security_results(results) ==
    LET vulns == Gathered(results, SecurityTools, "vulnerabilities")
        severity_counts ==
            [high |-> CountSeverity(vulns, {"high"}),
             medium |-> CountSeverity(vulns, {"medium"}),
             low |-> CountSeverity(vulns, {"low"}),
             info |-> Len(vulns) - CountSeverity(vulns, {"high", "medium", "low"})]
    IN  [totalVulnerabilities |-> Len(vulns),
         severityBreakdown |-> severity_counts,
         toolsUsed |-> SelectSeq(SecurityTools,
                          LAMBDA t : HasKey(results[t], "vulnerabilities")),
         riskLevel |-> _calculate_risk_level(severity_counts)]

\* TypeAnalyzer.analyze_types on an analyzer whose probes gave the two flags
TypeAnalysis(pyright_ok, mypy_ok, world) ==
    LET results == [type |-> "TypeAnalysis",
                    pyright |-> IF pyright_ok THEN _run_pyright(world) ELSE NoneRec,
                    mypy |-> IF mypy_ok THEN _run_mypy(world) ELSE NoneRec,
                    summary |-> <<>>]
    IN  [results EXCEPT !.summary = _combine_type_results(results)]

\* SecurityAnalyzer.analyze_security, likewise
SecurityAnalysis(bandit_ok, codeql_ok, world) ==
    LET results == [type |-> "SecurityAnalysis",
                    bandit |-> IF bandit_ok THEN _run_bandit(world) ELSE NoneRec,
                    codeql |-> IF codeql_ok THEN _run_codeql(world) ELSE NoneRec,
                    summary |-> <<>>]
    IN  [results EXCEPT !.summary = _combine_security_results(results)]

\* TypeAnalyzer(): the two probes run once, in the constructor; a probe
\* whose child never exits never returns, and neither does the constructor
TypeAnalyzer ==
    /\ tool_pc = "new"
    /\ \E p \in ToolEnvs("pyright"), m \in ToolEnvs("mypy") :
          env' = [env EXCEPT !["pyright"] = p, !["mypy"] = m]
    /\ IF ProbeHangs(env'["pyright"]) \/ ProbeHangs(env'["mypy"])
       THEN /\ tool_pc' = "hung"
            /\ UNCHANGED <<pyright_available, mypy_available>>
       ELSE /\ pyright_available' = _check_pyright(env')
            /\ mypy_available' = _check_mypy(env')
            /\ tool_pc' = "type"
    /\ UNCHANGED <<bandit_available, codeql_available, tool_result, tool_env, repeated>>
    /\ UNCHANGED notTools

SecurityAnalyzer ==
    /\ tool_pc = "new"
    /\ \E b \in ToolEnvs("bandit"), c \in ToolEnvs("codeql") :
          env' = [env EXCEPT !["bandit"] = b, !["codeql"] = c]
    /\ IF ProbeHangs(env'["bandit"]) \/ ProbeHangs(env'["codeql"])
       THEN /\ tool_pc' = "hung"
            /\ UNCHANGED <<bandit_available, codeql_available>>
       ELSE /\ bandit_available' = _check_bandit(env')
            /\ codeql_available' = _check_codeql(env')
            /\ tool_pc' = "security"
    /\ UNCHANGED <<pyright_available, mypy_available, tool_result, tool_env, repeated>>
    /\ UNCHANGED notTools

analyze_types ==
    /\ tool_pc = "type"
    /\ tool_result' = TypeAnalysis(pyright_available, mypy_available, env)
    /\ tool_env' = env
    /\ repeated' = (tool_result # NoCall /\ tool_env = env)
    /\ UNCHANGED <<env, tool_pc, pyright_available, mypy_available,
                   bandit_available, codeql_available>>
    /\ UNCHANGED notTools

analyze_security ==
    /\ tool_pc = "security"
    /\ tool_result' = SecurityAnalysis(bandit_available, codeql_available, env)
    /\ tool_env' = env
    /\ repeated' = (tool_result # NoCall /\ tool_env = env)
    /\ UNCHANGED <<env, tool_pc, pyright_available, mypy_available,
                   bandit_available, codeql_available>>
    /\ UNCHANGED notTools

\* the tools the constructed analyzer wraps
LiveTools ==
    CASE tool_pc = "type" -> {"pyright", "mypy"}
      [] tool_pc = "security" -> {"bandit", "codeql"}
      [] OTHER -> {}

\* between two calls a tool is removed from, or put on, the PATH
Uninstall(tool) ==
    /\ tool \in LiveTools
    /\ env[tool] # Absent
    /\ env' = [env EXCEPT ![tool] = Absent]
    /\ UNCHANGED <<tool_pc, pyright_available, mypy_available, bandit_available,
                   codeql_available, tool_result, tool_env, repeated>>
    /\ UNCHANGED notTools

Install(tool) ==
    /\ tool \in LiveTools
    /\ env[tool] = Absent
    /\ env' = [env EXCEPT ![tool] = Clean]
    /\ UNCHANGED <<tool_pc, pyright_available, mypy_available, bandit_available,
                   codeql_available, tool_result, tool_env, repeated>>
    /\ UNCHANGED notTools

(***************************************************************************)
(* FunctionExtractor / EnhancedFunctionExtractor                           *)
(* (src/extractor/function_extractor.py) and the directory walk            *)
(* (src/extractor/hierarchical_walker.py).  A call that raises is modelled *)
(* by an outcome with raised = TRUE; an exception that meets no handler    *)
(* unwinds every frame between the raise and the caller of the walk.       *)
(***************************************************************************)
\* largest number of files in one directory
MaxFiles == 2

\* the elements of a set of numbers, smallest first
RECURSIVE Ascending(_)
Ascending(S) ==
    IF S = {} THEN <<>>
    ELSE LET m == CHOOSE x \in S : \A y \in S : x <= y
         IN  <<m>> \o Ascending(S \ {m})

\* node j lies in the subtree of node i (ast.walk(node) reaches it)
IsUnder(c, j, i) == i \in Ancestors(c.parent, j)

\* for n in ast.walk(node): the attr of an Attribute callee, the id of a Name
\* callee, nothing for any other callee; list(set(calls)) keeps no order
CallsUnder(c, i) ==
    {IF c.nodes[j].func = "Attribute" THEN c.nodes[j].attr ELSE c.nodes[j].id :
        j \in {k \in 1..Len(c.nodes) :
                  /\ IsUnder(c, k, i)
                  /\ c.nodes[k].kind = "Call"
                  /\ c.nodes[k].func \in {"Attribute", "Name"}}}

function_to_json(c, i, class_name, is_async) ==
    IF class_name # NoneVal
    THEN [type |-> "Function", name |-> c.nodes[i].name, calls |-> CallsUnder(c, i),
          isAsync |-> is_async, inClass |-> class_name]
    ELSE [type |-> "Function", name |-> c.nodes[i].name, calls |-> CallsUnder(c, i),
          isAsync |-> is_async]

\* visit_ClassDef recurses with generic_visit, visit_FunctionDef does not:
\* the visitor reaches a definition only through enclosing classes
Reached(c, i) ==
    \A j \in Ancestors(c.parent, i) \ {0, i} : c.nodes[j].kind = "ClassDef"

\* a variant that lists every function definition below the class, those of
\* nested classes included
ClassEntryFlattened(c, i) ==
    LET body == Ascending({j \in 1..Len(c.nodes) :
                    /\ j # i
                    /\ IsUnder(c, j, i)
                    /\ c.nodes[j].kind \in {"FunctionDef", "AsyncFunctionDef"}})
    IN  [type |-> "Class", name |-> c.nodes[i].name,
         hasPart |-> [k \in 1..Len(body) |->
                        function_to_json(c, body[k], c.nodes[i].name, FALSE)]]

\* the functions directly in the body of class node i, as visit_ClassDef
\* lists them (is_async is left at its default)
ClassEntry(c, i) ==
    LET body == Ascending({j \in 1..Len(c.nodes) :
                    c.parent[j] = i /\ c.nodes[j].kind \in {"FunctionDef", "AsyncFunctionDef"}})
    IN  [type |-> "Class", name |-> c.nodes[i].name,
         hasPart |-> [k \in 1..Len(body) |->
                        function_to_json(c, body[k], c.nodes[i].name, FALSE)]]

\* FunctionExtractor.extract: ast.parse is not guarded, a SyntaxError leaves
\* the function; otherwise (self.classes, self.functions_outside_classes)
extract(c) ==
    IF ~c.ok THEN [raised |-> TRUE, exc |-> "SyntaxError"]
    ELSE LET cls == Ascending({i \in 1..Len(c.nodes) :
                        c.nodes[i].kind = "ClassDef" /\ Reached(c, i)})
             fns == Ascending({i \in 1..Len(c.nodes) :
                        /\ c.nodes[i].kind \in {"FunctionDef", "AsyncFunctionDef"}
                        /\ Reached(c, i)
                        /\ (c.parent[i] = 0 \/ c.nodes[c.parent[i]].kind # "ClassDef")})
         IN  [raised |-> FALSE,
              classes |-> [k \in 1..Len(cls) |-> ClassEntry(c, cls[k])],
              functions |-> [k \in 1..Len(fns) |->
                               function_to_json(c, fns[k], NoneVal,
                                   c.nodes[fns[k]].kind = "AsyncFunctionDef")]]

\* a file's content: the text and whether it holds a newline character
FileText(src, newline) == [src |-> src, newline |-> newline]

\* the whole text is one expression (cst.parse_expression accepts it)
IsExpression(c) ==
    /\ c.ok
    /\ Len(c.nodes) >= 1
    /\ \A i \in 1..Len(c.nodes) :
          c.nodes[i].kind = "Call" /\ (c.parent[i] = 0 <=> i = 1)

\* the libcst package the interpreter imports: the handler names
\* cst.ParserError, which is looked up only when an exception reaches it;
\* a package that exports no such name makes the lookup raise AttributeError
LibcstBuilds == {"ParserError", "no ParserError"}

\* extract_with_libcst: parse_expression for a text without "\n", parse_module
\* otherwise; a parse failure reaches `except cst.ParserError`, which gives
\* the "partial" result when the name resolves; an exception raised while
\* the handler is matched is not caught by the handlers after it
extract_with_libcst(t, build) ==
    IF (IF t.newline THEN t.src.ok ELSE IsExpression(t.src))
    THEN [raised |-> FALSE, extractionStatus |-> "success"]
    ELSE IF build = "ParserError"
    THEN [raised |-> FALSE, functions |-> <<>>, classes |-> <<>>, imports |-> <<>>,
          packages |-> <<>>, parseError |-> "Syntax Error", errorType |-> "syntax",
          extractionStatus |-> "partial"]
    ELSE [raised |-> TRUE, exc |-> "AttributeError"]

\* ParsoExtractor.extract_with_error_recovery: the tolerant parse succeeds on
\* any text; an error is listed for each node that has a get_error attribute,
\* which the text does not settle
ParsoOutcomes(t) ==
    IF t.src.ok
    THEN {[parseErrors |-> <<>>, isPartialParse |-> FALSE]}
    ELSE {[parseErrors |-> <<>>, isPartialParse |-> FALSE],
          [parseErrors |-> <<"error">>, isPartialParse |-> TRUE]}

\* the try/except of extract_call_relationships and extract_data_flows, seen
\* from the caller: the status of the bundle they return for a shallow tree
RelationshipStatus(c) == IF c.ok THEN "success" ELSE "failed"

\* the files the walked packages hold
GoodFile == FileText(FixtureScenario, TRUE)

EmptyFile == FileText(Text(<<>>, <<>>), FALSE)

BadFile == FileText(BadText, TRUE)

FileTexts == {GoodFile, EmptyFile, BadFile}

PyNames == {"core.py", "util.py"}

OtherNames == {"README.md"}

\* f.endswith('.py')
EndsWithPy(f) == f \in PyNames

FileEntries ==
    {[name |-> n, text |-> t] : n \in PyNames, t \in FileTexts}
    \cup {[name |-> n, text |-> EmptyFile] : n \in OtherNames}

\* the listings of one directory: distinct names, in any order
Listings ==
    UNION {{l \in [1..n -> FileEntries] :
               \A i, j \in 1..n : l[i].name = l[j].name => i = j} : n \in 0..MaxFiles}

\* os.walk yields the base directory first, then its subdirectories
DirLists == {<<".">>, <<".", "pkg">>, <<".", "__pycache__">>}

Trees ==
    UNION {{[i \in 1..Len(ds) |-> [root |-> ds[i], files |-> fl[i]]] :
               fl \in [1..Len(ds) -> Listings]} : ds \in DirLists}

\* the environments the walk is run in
WalkEnvs ==
    {NoTools,
     [NoTools EXCEPT
        !["pyright"] = [b |-> "ok", report |-> <<[file |-> "m.py", severity |-> "error"]>>],
        !["bandit"] = [b |-> "ok", report |-> <<[file |-> "m.py", severity |-> "HIGH"]>>]]}

\* os.path.relpath(os.path.join(root, f), base_path)
RelPath(root, f) == IF root = "." THEN f ELSE root \o "/" \o f

InLoop == walk_pc = "walk" /\ dir_i <= Len(tree)

AtFile == InLoop /\ file_i <= Len(tree[dir_i].files)

CurrentFile == tree[dir_i].files[file_i]

\* walk_python_modules_enhanced(base_path) is called on some package
walk_python_modules_enhanced ==
    /\ walk_pc = "idle"
    /\ tree' \in Trees
    /\ env' \in WalkEnvs
    /\ libcst_build' \in LibcstBuilds
    /\ walk_pc' = "walk"
    /\ dir_i' = 1
    /\ file_i' = 1
    /\ modules' = <<>>
    /\ UNCHANGED <<enhanced, walk_result>>
    /\ UNCHANGED notWalk

\* `if f.endswith('.py')` is false: nothing is done for the file
SkipFile ==
    /\ AtFile
    /\ ~EndsWithPy(CurrentFile.name)
    /\ file_i' = file_i + 1
    /\ UNCHANGED <<tree, env, walk_pc, dir_i, modules, enhanced, walk_result, libcst_build>>
    /\ UNCHANGED notWalk

\* build_enhanced_codefile constructs an EnhancedFunctionExtractor (whose
\* analyzers probe their tools) and calls extract_enhanced on the file's text
extract_enhanced ==
    /\ AtFile
    /\ EndsWithPy(CurrentFile.name)
    /\ LET t == CurrentFile.text
           ast == extract(t.src)
           libcst_data == extract_with_libcst(t, libcst_build)
       IN  IF ast.raised
           THEN enhanced' = ast
           ELSE IF libcst_data.raised
           THEN enhanced' = libcst_data
           ELSE \E parso_data \in ParsoOutcomes(t) :
                   enhanced' =
                       [raised |-> FALSE,
                        ast |-> [classes |-> ast.classes, functions |-> ast.functions],
                        libcst |-> libcst_data,
                        parso |-> parso_data,
                        typeAnalysis |->
                            TypeAnalysis(_check_pyright(env), _check_mypy(env), env),
                        securityAnalysis |->
                            SecurityAnalysis(_check_bandit(env), _check_codeql(env), env),
                        callGraph |-> [extractionStatus |-> RelationshipStatus(t.src)],
                        dataFlow |-> [extractionStatus |-> RelationshipStatus(t.src)]]
    /\ walk_pc' = "build"
    /\ UNCHANGED <<tree, env, dir_i, file_i, modules, walk_result, libcst_build>>
    /\ UNCHANGED notWalk

\* extract_enhanced returned: build_enhanced_codefile makes the CodeFile
\* record and the walk appends it to the list of the file's directory
build_enhanced_codefile ==
    /\ walk_pc = "build"
    /\ ~enhanced.raised
    /\ LET rel == RelPath(tree[dir_i].root, CurrentFile.name)
           cf == [type |-> "CodeFile", name |-> rel,
                  hasPart |-> enhanced.ast.classes \o enhanced.ast.functions,
                  enhanced |-> enhanced,
                  crossLanguage |-> [type |-> "CrossLanguageCodeFile"]]
           mod == tree[dir_i].root
       IN  modules' = DictSet(modules, mod, Append(DictGetDefault(modules, mod, <<>>), cf))
    /\ file_i' = file_i + 1
    /\ walk_pc' = "walk"
    /\ UNCHANGED <<tree, env, dir_i, enhanced, walk_result, libcst_build>>
    /\ UNCHANGED notWalk

\* extract_enhanced raised: neither build_enhanced_codefile nor the walk has
\* a handler, the exception leaves the walk and the local dict is dropped
Unwind ==
    /\ walk_pc = "build"
    /\ enhanced.raised
    /\ walk_pc' = "raised"
    /\ modules' = <<>>
    /\ UNCHANGED <<tree, env, dir_i, file_i, enhanced, walk_result, libcst_build>>
    /\ UNCHANGED notWalk

\* the inner loop is through with a directory
NextDir ==
    /\ InLoop
    /\ file_i > Len(tree[dir_i].files)
    /\ dir_i' = dir_i + 1
    /\ file_i' = 1
    /\ UNCHANGED <<tree, env, walk_pc, modules, enhanced, walk_result, libcst_build>>
    /\ UNCHANGED notWalk

\* a variant that lists the modules last-seen first
ModuleListReversed(mods) ==
    [k \in 1..Len(mods) |->
        [type |-> "CodeModule",
         name |-> IF mods[Len(mods) + 1 - k].k # "." THEN mods[Len(mods) + 1 - k].k ELSE "",
         hasPart |-> mods[Len(mods) + 1 - k].v]]

\* one CodeModule per key of the dict, in insertion order
ModuleList(mods) ==
    [k \in 1..Len(mods) |->
        [type |-> "CodeModule",
         name |-> IF mods[k].k # "." THEN mods[k].k ELSE "",
         hasPart |-> mods[k].v]]

WalkReturn ==
    /\ walk_pc = "walk"
    /\ dir_i > Len(tree)
    /\ walk_result' = ModuleList(modules)
    /\ walk_pc' = "done"
    /\ UNCHANGED <<tree, env, dir_i, file_i, modules, enhanced, libcst_build>>
    /\ UNCHANGED notWalk

(***************************************************************************)
(* DataFlowAnalyzer (src/extractor/data_flow_analyzer.py), an              *)
(* ast.NodeVisitor over the statements of a text.  Trees are numbered as   *)
(* for the call graph; a statement node carries its targets and the        *)
(* expression it reads.                                                    *)
(***************************************************************************)
\* largest number of nodes of an enumerated statement tree
MaxStmts == 2

\* expressions, as _analyze_value_source tells them apart
VName(x) == [node |-> "Name", id |-> x]

VCall(f) == [node |-> "Call", func |-> "Name", id |-> f]

VCallAttr(f) == [node |-> "Call", func |-> "Attribute", id |-> f]

VConst == [node |-> "Constant", id |-> ""]

\* `return` / `yield` without a value
VNone == [node |-> "None", id |-> ""]

NoTarget == ""

DFDef(kind, name, args) ==
    [kind |-> kind, name |-> name, args |-> args, targets |-> <<>>, value |-> VNone]

\* targets[k] is the id of a Name target, NoTarget for any other target
Assign(targets, value) ==
    [kind |-> "Assign", name |-> "", args |-> <<>>, targets |-> targets, value |-> value]

AugAssign(target, value) ==
    [kind |-> "AugAssign", name |-> "", args |-> <<>>, targets |-> <<target>>,
     value |-> value]

Return(value) ==
    [kind |-> "Return", name |-> "", args |-> <<>>, targets |-> <<>>, value |-> value]

Yield(value) ==
    [kind |-> "Yield", name |-> "", args |-> <<>>, targets |-> <<>>, value |-> value]

\* the node labels of the enumerated statement trees
DFLabels ==
    {DFDef("ClassDef", "A", <<>>), DFDef("FunctionDef", "f", <<>>),
     DFDef("FunctionDef", "f", <<"x">>), DFDef("FunctionDef", "g", <<"x", "y">>),
     DFDef("AsyncFunctionDef", "g", <<"y">>)}
    \cup {Assign(<<"x">>, v) : v \in {VName("y"), VCall("g"), VCallAttr("g"), VConst}}
    \cup {Assign(<<NoTarget>>, VCall("g")), Assign(<<"x", "y">>, VName("z"))}
    \cup {AugAssign("x", v) : v \in {VName("y"), VCall("g"), VConst}}
    \cup {AugAssign(NoTarget, VName("y"))}
    \cup {Return(v) : v \in {VName("x"), VCall("g"), VNone}}
    \cup {Yield(v) : v \in {VName("x"), VNone}}

\* statements sit in the body of a definition or of the module
DFWellFormed(nodes, parent) ==
    \A i \in 1..Len(nodes) :
        parent[i] # 0 => nodes[parent[i]].kind \in DefKinds

\* def f(x):
\*     x = y; x = g(); x += z; return x
FixtureDeps ==
    Text(<<DFDef("FunctionDef", "f", <<"x">>), Assign(<<"x">>, VName("y")),
           Assign(<<"x">>, VCall("g")), AugAssign("x", VName("z")),
           Return(VName("x"))>>,
         <<0, 1, 1, 1, 1>>)

\* class A:
\*     def m(self, v):
\*         r = clean(v)
\*         return r
FixtureTransformer ==
    Text(<<DFDef("ClassDef", "A", <<>>), DFDef("FunctionDef", "m", <<"self", "v">>),
           Assign(<<"r">>, VCall("clean")), Return(VName("r"))>>,
         <<0, 1, 2, 2>>)

\* definitions nested six deep around one assignment
FixtureNested ==
    Text(<<DFDef("FunctionDef", "f", <<>>), DFDef("FunctionDef", "g", <<>>),
           DFDef("ClassDef", "A", <<>>), DFDef("FunctionDef", "m", <<>>),
           DFDef("FunctionDef", "h", <<>>), DFDef("FunctionDef", "k", <<>>),
           Assign(<<"x">>, VConst)>>,
         <<0, 1, 2, 3, 4, 5, 6>>)

\* def f():
\*     x = 1
\*     x += y
FixtureAug ==
    Text(<<DFDef("FunctionDef", "f", <<>>), Assign(<<"x">>, VConst),
           AugAssign("x", VName("y"))>>,
         <<0, 1, 1>>)

\* def f():
\*     x = 1
\*     x += g()
FixtureAugCall ==
    Text(<<DFDef("FunctionDef", "f", <<>>), Assign(<<"x">>, VConst),
           AugAssign("x", VCall("g"))>>,
         <<0, 1, 1>>)

\* def f():
\*     x = g()
\*     x = 1
FixtureOverwritten ==
    Text(<<DFDef("FunctionDef", "f", <<>>), Assign(<<"x">>, VCall("g")),
           Assign(<<"x">>, VConst)>>,
         <<0, 1, 1>>)

\* def f():
\*     x = a
\*     x = b
\* def g():
\*     x = c
\*     y = x
FixtureShared ==
    Text(<<DFDef("FunctionDef", "f", <<>>), Assign(<<"x">>, VName("a")),
           Assign(<<"x">>, VName("b")), DFDef("FunctionDef", "g", <<>>),
           Assign(<<"x">>, VName("c")), Assign(<<"y">>, VName("x"))>>,
         <<0, 1, 1, 0, 4, 4>>)

DFFixtures ==
    {FixtureDeps, FixtureTransformer, FixtureNested, FixtureAug, FixtureAugCall,
     FixtureOverwritten, FixtureShared}

IsDFProgram(c) ==
    \/ c \in DFFixtures
    \/ c = BadText
    \/ \E n \in 0..MaxStmts :
          \E p \in ParentSeqs(n) :
             \E l \in [1..n -> DFLabels] :
                /\ DFWellFormed(l, p)
                /\ c = Text(l, p)

DFNumNodes == Len(df_code.nodes)

DFTop == IF df_stack = <<>> THEN 0 ELSE df_stack[Len(df_stack)].node

DFCanVisit(i) ==
    /\ df_pc = "visit"
    /\ df_pos = i
    /\ i <= DFNumNodes
    /\ df_code.parent[i] = DFTop
    /\ Len(df_stack) < RecursionLimit

DFChildrenDone ==
    /\ df_pc = "visit"
    /\ df_stack # <<>>
    /\ IF df_pos > DFNumNodes THEN TRUE ELSE df_code.parent[df_pos] # DFTop

DFPop == SubSeq(df_stack, 1, Len(df_stack) - 1)

df_get_qualified_name(name) ==
    IF df_current_class # NoneVal THEN df_current_class \o "." \o name ELSE name

_extract_call_name(node) ==
    IF node.func \in {"Name", "Attribute"} THEN node.id ELSE "unknown_call"

_analyze_value_source(node) ==
    CASE node.node = "Name" ->
            [type |-> "variable", name |-> node.id, context |-> "local"]
      [] node.node = "Call" ->
            [type |-> "function_call", function |-> _extract_call_name(node)]
      [] node.node = "Constant" ->
            [type |-> "constant", valueType |-> "int"]
      [] OTHER ->
            [type |-> "expression", nodeType |-> node.node]

\* self.function_variables[function][var] = info on a defaultdict(dict)
SetVariable(fv, function, var, info) ==
    DictSet(fv, function, DictSet(DictGetDefault(fv, function, <<>>), var, info))

\* a variant that keeps one dependency set per function and variable
AddDependencyPerFunction(dd, var, dep) ==
    DictSet(dd, df_current_function \o ":" \o var,
            DictGetDefault(dd, df_current_function \o ":" \o var, {}) \cup {dep})

\* self.data_dependencies[var].add(dep) on a defaultdict(set)
AddDependency(dd, var, dep) ==
    DictSet(dd, var, DictGetDefault(dd, var, {}) \cup {dep})

df_visit_ClassDef(i) ==
    LET node == df_code.nodes[i] IN
    /\ DFCanVisit(i)
    /\ node.kind = "ClassDef"
    /\ df_stack' = Append(df_stack, [node |-> i, old |-> df_current_class])
    /\ df_current_class' = node.name
    /\ df_pos' = df_pos + 1
    /\ UNCHANGED notDataFlow
    /\ UNCHANGED <<df_code, df_pc, data_flows, df_current_function, function_variables,
                   data_dependencies, df_result>>

\* the loop over node.args.args, from parameter k on
RECURSIVE ParameterVariables(_, _, _, _, _)
ParameterVariables(fv, function_name, args, line, k) ==
    IF k > Len(args) THEN fv
    ELSE ParameterVariables(
            SetVariable(fv, function_name, args[k],
                        [type |-> "parameter", function |-> function_name,
                         source |-> "input", line |-> line]),
            function_name, args, line, k + 1)

ParameterFlows(function_name, args, line) ==
    [k \in 1..Len(args) |->
        [type |-> "DataFlow", function |-> function_name, variable |-> args[k],
         flowType |-> "parameter_input", source |-> "function_parameter",
         destination |-> args[k], line |-> line]]

\* visit_FunctionDef up to generic_visit
DFFunctionDefBody(i) ==
    LET node == df_code.nodes[i]
        function_name == df_get_qualified_name(node.name)
    IN
    /\ df_stack' = Append(df_stack, [node |-> i, old |-> df_current_function])
    /\ df_current_function' = function_name
    /\ function_variables' =
          ParameterVariables(function_variables, function_name, node.args, i, 1)
    /\ data_flows' = data_flows \o ParameterFlows(function_name, node.args, i)
    /\ df_pos' = df_pos + 1
    /\ UNCHANGED notDataFlow
    /\ UNCHANGED <<df_code, df_pc, df_current_class, data_dependencies, df_result>>

df_visit_FunctionDef(i) ==
    /\ DFCanVisit(i)
    /\ df_code.nodes[i].kind = "FunctionDef"
    /\ DFFunctionDefBody(i)

\* visit_AsyncFunctionDef calls self.visit_FunctionDef(node)
df_visit_AsyncFunctionDef(i) ==
    /\ DFCanVisit(i)
    /\ df_code.nodes[i].kind = "AsyncFunctionDef"
    /\ DFFunctionDefBody(i)

\* the loop over node.targets, from target k on: the three collections after it
RECURSIVE AssignTargets(_, _, _, _, _)
AssignTargets(st, targets, value_source, line, k) ==
    IF k > Len(targets) THEN st
    ELSE IF targets[k] = NoTarget
    THEN AssignTargets(st, targets, value_source, line, k + 1)
    ELSE LET var_name == targets[k]
             fv == SetVariable(st.fv, df_current_function, var_name,
                               [type |-> "assignment", function |-> df_current_function,
                                source |-> value_source, line |-> line])
             flows == Append(st.flows,
                             [type |-> "DataFlow", function |-> df_current_function,
                              variable |-> var_name, flowType |-> "assignment",
                              source |-> value_source, destination |-> var_name,
                              line |-> line])
             dd == IF value_source.type = "variable"
                   THEN AddDependency(st.dd, var_name, value_source.name)
                   ELSE IF value_source.type = "function_call"
                   THEN AddDependency(st.dd, var_name, "call:" \o value_source.function)
                   ELSE st.dd
         IN  AssignTargets([fv |-> fv, flows |-> flows, dd |-> dd],
                           targets, value_source, line, k + 1)

visit_Assign(i) ==
    LET node == df_code.nodes[i]
        st == IF df_current_function # NoneVal
              THEN AssignTargets([fv |-> function_variables, flows |-> data_flows,
                                  dd |-> data_dependencies],
                                 node.targets, _analyze_value_source(node.value), i, 1)
              ELSE [fv |-> function_variables, flows |-> data_flows,
                    dd |-> data_dependencies]
    IN
    /\ DFCanVisit(i)
    /\ node.kind = "Assign"
    /\ function_variables' = st.fv
    /\ data_flows' = st.flows
    /\ data_dependencies' = st.dd
    /\ df_pos' = df_pos + 1
    /\ UNCHANGED notDataFlow
    /\ UNCHANGED <<df_code, df_pc, df_stack, df_current_function, df_current_class,
                   df_result>>

\* a variant that treats `x += v` as the plain assignment `x = v`
AugDependenciesAsAssign(dd, var_name, value_source) ==
    IF value_source.type = "variable"
    THEN AddDependency(dd, var_name, value_source.name)
    ELSE IF value_source.type = "function_call"
    THEN AddDependency(dd, var_name, "call:" \o value_source.function)
    ELSE dd

\* the variable depends on itself and, when the value is a name, on that name
AugDependencies(dd, var_name, value_source) ==
    LET own == AddDependency(dd, var_name, var_name)
    IN  IF value_source.type = "variable"
        THEN AddDependency(own, var_name, value_source.name)
        ELSE own

visit_AugAssign(i) ==
    LET node == df_code.nodes[i]
        var_name == node.targets[1]
        value_source == _analyze_value_source(node.value)
        tracked == df_current_function # NoneVal /\ var_name # NoTarget
    IN
    /\ DFCanVisit(i)
    /\ node.kind = "AugAssign"
    /\ data_flows' =
          IF tracked
          THEN Append(data_flows,
                      [type |-> "DataFlow", function |-> df_current_function,
                       variable |-> var_name, flowType |-> "augmented_assignment",
                       operation |-> "Add", source |-> value_source,
                       destination |-> var_name, line |-> i])
          ELSE data_flows
    /\ data_dependencies' =
          IF tracked
          THEN AugDependencies(data_dependencies, var_name, value_source)
          ELSE data_dependencies
    /\ df_pos' = df_pos + 1
    /\ UNCHANGED notDataFlow
    /\ UNCHANGED <<df_code, df_pc, df_stack, df_current_function, df_current_class,
                   function_variables, df_result>>

\* the body shared in shape by visit_Return and visit_Yield
OutputFlow(i, flowType, destination) ==
    LET node == df_code.nodes[i] IN
    /\ data_flows' =
          IF df_current_function # NoneVal /\ node.value # VNone
          THEN Append(data_flows,
                      [type |-> "DataFlow", function |-> df_current_function,
                       flowType |-> flowType,
                       source |-> _analyze_value_source(node.value),
                       destination |-> destination, line |-> i])
          ELSE data_flows
    /\ df_pos' = df_pos + 1
    /\ UNCHANGED notDataFlow
    /\ UNCHANGED <<df_code, df_pc, df_stack, df_current_function, df_current_class,
                   function_variables, data_dependencies, df_result>>

visit_Return(i) ==
    /\ DFCanVisit(i)
    /\ df_code.nodes[i].kind = "Return"
    /\ OutputFlow(i, "return", "function_output")

visit_Yield(i) ==
    /\ DFCanVisit(i)
    /\ df_code.nodes[i].kind = "Yield"
    /\ OutputFlow(i, "yield", "generator_output")

\* visit_ClassDef after generic_visit: self.current_class = old_class
df_ReturnClassDef ==
    /\ DFChildrenDone
    /\ df_code.nodes[DFTop].kind = "ClassDef"
    /\ df_current_class' = df_stack[Len(df_stack)].old
    /\ df_stack' = DFPop
    /\ UNCHANGED notDataFlow
    /\ UNCHANGED <<df_code, df_pc, df_pos, data_flows, df_current_function,
                   function_variables, data_dependencies, df_result>>

\* visit_FunctionDef after generic_visit: self.current_function = old_function
df_ReturnFunctionDef ==
    /\ DFChildrenDone
    /\ df_code.nodes[DFTop].kind \in {"FunctionDef", "AsyncFunctionDef"}
    /\ df_current_function' = df_stack[Len(df_stack)].old
    /\ df_stack' = DFPop
    /\ UNCHANGED notDataFlow
    /\ UNCHANGED <<df_code, df_pc, df_pos, data_flows, df_current_class,
                   function_variables, data_dependencies, df_result>>

\* [var for var, info in variables.items() if info["type"] == "parameter"]
ParameterNames(variables) ==
    LET picked == SelectSeq(variables, LAMBDA entry : entry.v.type = "parameter")
    IN  [k \in 1..Len(picked) |-> picked[k].k]

InputOutput(func_name, variables) ==
    LET inputs == ParameterNames(variables)
        returns == SelectSeq(data_flows,
                      LAMBDA flow : flow.function = func_name /\ flow.flowType = "return")
        outputs == [k \in 1..Len(returns) |-> returns[k].source]
    IN  [inputs |-> inputs, outputs |-> outputs,
         inputCount |-> Len(inputs), outputCount |-> Len(outputs)]

\* a variant that counts every variable whose last record is an assignment
TransformationsAnyAssignment(variables) ==
    Len(SelectSeq(variables, LAMBDA entry : entry.v.type = "assignment"))

\* the variables of a function whose last record is an assignment of a call
Transformations(variables) ==
    Len(SelectSeq(variables,
            LAMBDA entry : /\ entry.v.type = "assignment"
                           /\ entry.v.source.type = "function_call"))

_analyze_flow_patterns ==
    LET transformers == SelectSeq(function_variables,
                           LAMBDA entry : Transformations(entry.v) > 0)
        complex == SelectSeq(data_dependencies, LAMBDA entry : Cardinality(entry.v) > 2)
    IN  [inputOutputFunctions |->
            [k \in 1..Len(function_variables) |->
                [k |-> function_variables[k].k,
                 v |-> InputOutput(function_variables[k].k, function_variables[k].v)]],
         dataTransformers |->
            [k \in 1..Len(transformers) |->
                [function |-> transformers[k].k,
                 transformationCount |-> Transformations(transformers[k].v)]],
         variableLifecycles |-> <<>>,
         complexDependencies |->
            [k \in 1..Len(complex) |->
                [variable |-> complex[k].k, dependencies |-> complex[k].v,
                 dependencyCount |-> Cardinality(complex[k].v)]]]

DFSuccessBundle ==
    [type |-> "DataFlowAnalysis",
     flows |-> data_flows,
     functionVariables |-> function_variables,
     dataDependencies |-> data_dependencies,
     flowPatterns |-> _analyze_flow_patterns,
     totalFlows |-> Len(data_flows),
     extractionStatus |-> "success"]

DFFailedBundle(e) ==
    [type |-> "DataFlowAnalysis",
     flows |-> <<>>,
     functionVariables |-> <<>>,
     dataDependencies |-> <<>>,
     flowPatterns |-> <<>>,
     totalFlows |-> 0,
     error |-> e,
     extractionStatus |-> "failed"]

\* what extract_data_flows does with an exception raised in its try block
DFExceptHandler(e) ==
    /\ df_result' = DFFailedBundle(e)
    /\ df_pc' = "done"

\* a caller invokes extract_data_flows(code) on the new analyzer; the caller
\* is single-threaded, no call of the other extractor is in progress
extract_data_flows ==
    /\ df_pc = "idle"
    /\ pc = "idle"
    /\ IsDFProgram(df_code')
    /\ df_pc' = "parse"
    /\ UNCHANGED notDataFlow
    /\ UNCHANGED <<df_pos, df_stack, data_flows, df_current_function, df_current_class,
                   function_variables, data_dependencies, df_result>>

\* tree = ast.parse(code) returns
DFParse ==
    /\ df_pc = "parse"
    /\ df_code.ok
    /\ df_pc' = "visit"
    /\ UNCHANGED notDataFlow
    /\ UNCHANGED <<df_code, df_pos, df_stack, data_flows, df_current_function,
                   df_current_class, function_variables, data_dependencies, df_result>>

\* tree = ast.parse(code) raises SyntaxError
DFParseError ==
    /\ df_pc = "parse"
    /\ ~df_code.ok
    /\ DFExceptHandler("SyntaxError")
    /\ UNCHANGED notDataFlow
    /\ UNCHANGED <<df_code, df_pos, df_stack, data_flows, df_current_function,
                   df_current_class, function_variables, data_dependencies>>

\* self.visit(tree) runs out of interpreter frames
DFRecursionError ==
    /\ df_pc = "visit"
    /\ df_pos <= DFNumNodes
    /\ df_code.parent[df_pos] = DFTop
    /\ Len(df_stack) >= RecursionLimit
    /\ df_stack' = <<>>
    /\ DFExceptHandler("RecursionError")
    /\ UNCHANGED notDataFlow
    /\ UNCHANGED <<df_code, df_pos, data_flows, df_current_function, df_current_class,
                   function_variables, data_dependencies>>

\* self.visit(tree) returned: build the bundle
DFFinish ==
    /\ df_pc = "visit"
    /\ df_stack = <<>>
    /\ df_pos > DFNumNodes
    /\ df_result' = DFSuccessBundle
    /\ df_pc' = "done"
    /\ UNCHANGED notDataFlow
    /\ UNCHANGED <<df_code, df_pos, df_stack, data_flows, df_current_function,
                   df_current_class, function_variables, data_dependencies>>

(***************************************************************************)
(* One FunctionExtractor object called more than once, and                 *)
(* extract_with_libcst called on its own.  visit_ClassDef and              *)
(* visit_FunctionDef append to self.classes and                            *)
(* self.functions_outside_classes, which __init__ alone sets to [].        *)
(***************************************************************************)
\* largest number of extract calls made on one extractor object
MaxCalls == 2

\* class C:
\*     def a(self): pass
\*     class D:
\*         def b(self): pass
\*     def c(self): pass
FixtureNestedClass ==
    Text(<<DefNode("ClassDef", "C"), DefNode("FunctionDef", "a"),
           DefNode("ClassDef", "D"), DefNode("FunctionDef", "b"),
           DefNode("FunctionDef", "c")>>,
         <<0, 1, 1, 3, 1>>)

\* the texts handed to a new extractor
IsFEProgram(c) == IsProgram(c) \/ c = FixtureNestedClass

\* the texts handed to an extractor that has been called before
LaterTexts == {FixtureUnused, FixtureScenario, BadText}

\* the texts handed to extract_with_libcst
LibcstTexts ==
    {FileText(src, newline) :
        src \in {BadText, Text(<<>>, <<>>), Text(<<CallName("a")>>, <<0>>),
                 FixtureUnused, FixtureScenario},
        newline \in BOOLEAN}

\* extractor.extract(code): ast.parse raises before anything is appended;
\* otherwise the traversal appends its entries to the lists of the object and
\* the two lists themselves are returned
Extract ==
    /\ fe_calls < MaxCalls
    /\ lc_result = NoCall
    /\ IF fe_calls = 0 THEN IsFEProgram(fe_text') ELSE fe_text' \in LaterTexts
    /\ LET visited == extract(fe_text') IN
       IF visited.raised
       THEN /\ fe_result' = visited
            /\ UNCHANGED <<classes, functions_outside_classes>>
       ELSE /\ classes' = classes \o visited.classes
            /\ functions_outside_classes' =
                  functions_outside_classes \o visited.functions
            /\ fe_result' = [raised |-> FALSE, classes |-> classes',
                             functions |-> functions_outside_classes']
    /\ fe_calls' = fe_calls + 1
    /\ UNCHANGED <<lc_text, lc_result, libcst_build>>
    /\ UNCHANGED notExtractor

\* extract_with_libcst(source_code) under the libcst package that is installed
ExtractWithLibcst ==
    /\ lc_result = NoCall
    /\ fe_calls = 0
    /\ lc_text' \in LibcstTexts
    /\ libcst_build' \in LibcstBuilds
    /\ lc_result' = extract_with_libcst(lc_text', libcst_build')
    /\ UNCHANGED <<fe_text, classes, functions_outside_classes, fe_result, fe_calls>>
    /\ UNCHANGED notExtractor

(***************************************************************************)
(* The summaries: SecurityAnalyzer._calculate_risk_level and               *)
(* extract_analysis_summary / convert_to_enhanced_jsonld                   *)
(***************************************************************************)
\* largest severity count, and largest per-file total, handed to the summaries
MaxCount == 6
\* largest number of modules handed to extract_analysis_summary
MaxModules == 2

\* truthiness of a dict-or-None value: None is falsy, the dicts the pipeline
\* builds for these keys are never empty
Truthy(d) == d # NoneRec

RECURSIVE Flatten(_)
Flatten(ss) == IF ss = <<>> THEN <<>> ELSE Head(ss) \o Flatten(Tail(ss))

\* 'HIGH' if security_issues>10 else 'MEDIUM' if security_issues>0 else 'LOW'
document_risk(security_issues) ==
    IF security_issues > 10 THEN "HIGH"
    ELSE IF security_issues > 0 THEN "MEDIUM"
    ELSE "LOW"

\* extract_analysis_summary(modules): one pass over every CodeFile of every
\* module, adding up the totals each file's enhanced record carries
extract_analysis_summary(mods) ==
    LET files == Flatten([m \in 1..Len(mods) |-> mods[m].hasPart])
        analysed == SelectSeq(files, LAMBDA cf : Truthy(cf.enhanced))
        typed == SelectSeq(analysed, LAMBDA cf : Truthy(cf.enhanced.typeAnalysis))
        scanned == SelectSeq(analysed, LAMBDA cf : Truthy(cf.enhanced.securityAnalysis))
        type_errors ==
            SumSeq([i \in 1..Len(typed) |->
                       typed[i].enhanced.typeAnalysis.summary.totalErrors])
        security_issues ==
            SumSeq([i \in 1..Len(scanned) |->
                       scanned[i].enhanced.securityAnalysis.summary.totalVulnerabilities])
        cross_lang == \E i \in 1..Len(files) : Truthy(files[i].crossLanguage)
    IN  [toolsUsed |->
            (IF \E i \in 1..Len(analysed) : Truthy(analysed[i].enhanced.libcst)
             THEN {"libcst"} ELSE {})
            \cup (IF \E i \in 1..Len(analysed) : Truthy(analysed[i].enhanced.parso)
                  THEN {"parso"} ELSE {})
            \cup (IF typed # <<>> THEN {"type-analysis"} ELSE {})
            \cup (IF scanned # <<>> THEN {"security-analysis"} ELSE {})
            \cup (IF cross_lang THEN {"tree-sitter"} ELSE {}),
         security |-> [totalIssues |-> security_issues,
                       riskLevel |-> document_risk(security_issues)],
         types |-> [totalErrors |-> type_errors,
                    coverage |-> IF type_errors > 0 THEN "PARTIAL" ELSE "GOOD"],
         crossLanguageSupport |-> cross_lang]

\* the severity counts _combine_security_results can hand over
SeverityCounts == [high : 0..MaxCount, medium : 0..MaxCount, low : 0..MaxCount,
                   info : 0..MaxCount]

\* the per-file totals the summary is tried on
FileTotals == {0, 1, MaxCount}

\* the values of enhanced['typeAnalysis'] / enhanced['securityAnalysis']:
\* None (no analysis path), or the analyzer's result with its summary
TypeAnalyses == {NoneRec} \cup {[summary |-> [totalErrors |-> n]] : n \in FileTotals}

SecurityAnalyses ==
    {NoneRec} \cup {[summary |-> [totalVulnerabilities |-> n]] : n \in FileTotals}

CodeFiles ==
    {[enhanced |-> [libcst |-> [extractionStatus |-> "success"],
                    parso |-> [extractionStatus |-> "success"],
                    typeAnalysis |-> ta, securityAnalysis |-> sa],
      crossLanguage |-> [type |-> "CrossLanguageCodeFile"]] :
        ta \in TypeAnalyses, sa \in SecurityAnalyses}
    \cup {[enhanced |-> NoneRec, crossLanguage |-> NoneRec]}

\* module lists of up to MaxModules modules with one file each
ModuleLists ==
    UNION {[1..n -> {[hasPart |-> <<cf>>] : cf \in CodeFiles}] : n \in 0..MaxModules}

\* _calculate_risk_level(severity_counts) is called on some counts
CalculateRiskLevel ==
    /\ sum_pc = "idle"
    /\ risk_counts' \in SeverityCounts
    /\ risk_level' = _calculate_risk_level(risk_counts')
    /\ sum_pc' = "risk"
    /\ UNCHANGED <<sum_modules, sum_result>>
    /\ UNCHANGED notSummary

\* extract_analysis_summary(modules) is called on some module list
ExtractAnalysisSummary ==
    /\ sum_pc = "idle"
    /\ sum_modules' \in ModuleLists
    /\ sum_result' = extract_analysis_summary(sum_modules')
    /\ sum_pc' = "summary"
    /\ UNCHANGED <<risk_counts, risk_level>>
    /\ UNCHANGED notSummary

\* main: convert_to_enhanced_jsonld(meta, modules, ...) on the list the walk
\* returned; of the metadata it builds, the analysisMetadata entry is kept
convert_to_enhanced_jsonld ==
    /\ walk_pc = "done"
    /\ LET summary == extract_analysis_summary(walk_result) IN
       analysis_metadata' =
           [type |-> "AnalysisMetadata",
            toolsUsed |-> summary.toolsUsed,
            securitySummary |-> summary.security,
            typeSummary |-> summary.types,
            crossLanguageSupport |-> summary.crossLanguageSupport]
    /\ walk_pc' = "converted"
    /\ UNCHANGED <<tree, env, dir_i, file_i, modules, enhanced, walk_result, libcst_build>>
    /\ UNCHANGED <<sum_pc, risk_counts, risk_level, sum_modules, sum_result>>
    /\ UNCHANGED <<cgVars, dfVars, feVars, tool_pc, pyright_available, mypy_available,
                   bandit_available, codeql_available, tool_result, tool_env, repeated>>
(***************************************************************************)
(* Specifications.  Every part starts from the same state: objects just    *)
(* constructed, nothing called yet.                                        *)
(***************************************************************************)
\* CallGraphExtractor(): no text handed over yet
CallGraphInit ==
    /\ code = Text(<<>>, <<>>)
    /\ pc = "idle"
    /\ pos = 1
    /\ stack = <<>>
    /\ call_graph = <<>>
    /\ current_function = NoneVal
    /\ current_class = NoneVal
    /\ function_definitions = <<>>
    /\ class_definitions = <<>>
    /\ call_details = <<>>
    /\ cg_result = [extractionStatus |-> "pending"]

\* no analyzer constructed, no tool on the PATH yet
ToolInit ==
    /\ env = NoTools
    /\ tool_pc = "new"
    /\ pyright_available = FALSE
    /\ mypy_available = FALSE
    /\ bandit_available = FALSE
    /\ codeql_available = FALSE
    /\ tool_result = NoCall
    /\ tool_env = NoTools
    /\ repeated = FALSE

\* the walk has not been called
WalkInit ==
    /\ tree = <<>>
    /\ walk_pc = "idle"
    /\ dir_i = 1
    /\ file_i = 1
    /\ modules = <<>>
    /\ enhanced = NoCall
    /\ walk_result = NoCall
    /\ libcst_build = "not imported"

\* DataFlowAnalyzer(): no text handed over yet
DataFlowInit ==
    /\ df_code = Text(<<>>, <<>>)
    /\ df_pc = "idle"
    /\ df_pos = 1
    /\ df_stack = <<>>
    /\ data_flows = <<>>
    /\ df_current_function = NoneVal
    /\ df_current_class = NoneVal
    /\ function_variables = <<>>
    /\ data_dependencies = <<>>
    /\ df_result = [extractionStatus |-> "pending"]

\* FunctionExtractor(): empty lists, nothing called yet
ExtractorInit ==
    /\ fe_text = Text(<<>>, <<>>)
    /\ classes = <<>>
    /\ functions_outside_classes = <<>>
    /\ fe_result = NoCall
    /\ fe_calls = 0
    /\ lc_text = FileText(Text(<<>>, <<>>), FALSE)
    /\ lc_result = NoCall

\* neither summary computed yet
SummaryInit ==
    /\ sum_pc = "idle"
    /\ risk_counts = [high |-> 0, medium |-> 0, low |-> 0, info |-> 0]
    /\ risk_level = NoneVal
    /\ sum_modules = <<>>
    /\ sum_result = NoCall
    /\ analysis_metadata = NoCall

Init ==
    /\ CallGraphInit
    /\ ToolInit
    /\ WalkInit
    /\ DataFlowInit
    /\ ExtractorInit
    /\ SummaryInit

CallGraphNext ==
    \/ extract_call_relationships
    \/ Parse
    \/ ParseError
    \/ \E i \in 1..NumNodes : visit_ClassDef(i)
    \/ \E i \in 1..NumNodes : visit_FunctionDef(i)
    \/ \E i \in 1..NumNodes : visit_AsyncFunctionDef(i)
    \/ \E i \in 1..NumNodes : visit_Call(i)
    \/ ReturnClassDef
    \/ ReturnFunctionDef
    \/ ReturnCall
    \/ RecursionError
    \/ Finish

\* one CallGraphExtractor, one call of extract_call_relationships
CallGraphSpec == Init /\ [][CallGraphNext]_vars

DataFlowNext ==
    \/ extract_data_flows
    \/ DFParse
    \/ DFParseError
    \/ \E i \in 1..DFNumNodes : df_visit_ClassDef(i)
    \/ \E i \in 1..DFNumNodes : df_visit_FunctionDef(i)
    \/ \E i \in 1..DFNumNodes : df_visit_AsyncFunctionDef(i)
    \/ \E i \in 1..DFNumNodes : visit_Assign(i)
    \/ \E i \in 1..DFNumNodes : visit_AugAssign(i)
    \/ \E i \in 1..DFNumNodes : visit_Return(i)
    \/ \E i \in 1..DFNumNodes : visit_Yield(i)
    \/ df_ReturnClassDef
    \/ df_ReturnFunctionDef
    \/ DFRecursionError
    \/ DFFinish

\* one DataFlowAnalyzer, one call of extract_data_flows
DataFlowSpec == Init /\ [][DataFlowNext]_vars

RelationshipNext == CallGraphNext \/ DataFlowNext

\* either of the two relationship extractors, called once on some text
RelationshipSpec == Init /\ [][RelationshipNext]_vars

ToolNext ==
    \/ TypeAnalyzer
    \/ SecurityAnalyzer
    \/ analyze_types
    \/ analyze_security
    \/ \E tool \in AllTools : Uninstall(tool)
    \/ \E tool \in AllTools : Install(tool)

\* one analyzer object, called any number of times while tools come and go
ToolSpec == Init /\ [][ToolNext]_vars

WalkNext ==
    \/ walk_python_modules_enhanced
    \/ SkipFile
    \/ extract_enhanced
    \/ build_enhanced_codefile
    \/ Unwind
    \/ NextDir
    \/ WalkReturn
    \/ convert_to_enhanced_jsonld

\* one call of walk_python_modules_enhanced on some package directory, and
\* the conversion of what it returned
WalkSpec == Init /\ [][WalkNext]_vars

ExtractorNext ==
    \/ Extract
    \/ ExtractWithLibcst

\* one FunctionExtractor called up to MaxCalls times, or one call of
\* extract_with_libcst
ExtractorSpec == Init /\ [][ExtractorNext]_vars

SummaryNext ==
    \/ CalculateRiskLevel
    \/ ExtractAnalysisSummary

\* one call of _calculate_risk_level or of extract_analysis_summary
SummarySpec == Init /\ [][SummaryNext]_vars
(***************************************************************************)
(* What the syntax tree says, read off the tree without running the        *)
(* visitor: the reference the results are compared with.                   *)
(***************************************************************************)
FuncKinds == {"FunctionDef", "AsyncFunctionDef"}

\* the nearest strict ancestor of node i whose kind is in kinds (0: none)
RECURSIVE Enclosing(_, _, _)
Enclosing(c, i, kinds) ==
    LET p == c.parent[i] IN
    IF p = 0 THEN 0
    ELSE IF c.nodes[p].kind \in kinds THEN p
    ELSE Enclosing(c, p, kinds)

\* Class.name for a definition inside a class body, else the bare name
QualName(c, i) ==
    LET k == Enclosing(c, i, {"ClassDef"}) IN
    IF k = 0 THEN c.nodes[i].name ELSE c.nodes[k].name \o "." \o c.nodes[i].name

FuncNodes(c) == {i \in 1..Len(c.nodes) : c.nodes[i].kind \in FuncKinds}

CallNodes(c) == {i \in 1..Len(c.nodes) : c.nodes[i].kind = "Call"}

DefinedNames(c) == {QualName(c, i) : i \in FuncNodes(c)}

Succeeded == pc = "done" /\ cg_result.extractionStatus = "success"

Relationships == SeqToSet(cg_result.relationships)

\* the callee set the result reports for a caller ({}: no relationship)
CalleesOf(caller) ==
    UNION {r.callees : r \in {x \in Relationships : x.caller = caller}}

Isolated == SeqToSet(cg_result.callPatterns.isolatedFunctions)

Recursive == SeqToSet(cg_result.callPatterns.recursiveFunctions)

\* def <f>(): <x>(); <r>.<y>()  -- one function holding the two call forms
TwoCallForms ==
    /\ code.ok
    /\ code.parent = <<0, 1, 1>>
    /\ code.nodes[1].kind = "FunctionDef"
    /\ code.nodes[2].func = "Name"
    /\ code.nodes[3].func = "Attribute"
    /\ code.nodes[3].value = "Name"

\* C5 as stated: for a function f whose body holds the calls a() and b.c(),
\* the callee set of f is {a, c} (attribute calls keep only the last name).
C5_CalleesFinalAttribute ==
    Succeeded /\ TwoCallForms
        => CalleesOf(code.nodes[1].name) = {code.nodes[2].id, code.nodes[3].attr}

\* C5 amended: the callee set of f is {a, b.c}: an attribute call on a
\* bare-name receiver is recorded as receiver.attribute.
C5_CalleesReceiverDotAttribute ==
    Succeeded /\ TwoCallForms
        => CalleesOf(code.nodes[1].name)
              = {code.nodes[2].id, code.nodes[3].value_id \o "." \o code.nodes[3].attr}

C5_Witness ==
    /\ Succeeded
    /\ code = FixtureCalls
    /\ CalleesOf("f") = {"a", "b.c"}

\* class <A>: def <m>(self): <helper>()  +  def <helper>() at top level
MethodCallsHelper ==
    /\ code.ok
    /\ code.parent = <<0, 1, 2, 0>>
    /\ code.nodes[1].kind = "ClassDef"
    /\ code.nodes[2].kind = "FunctionDef"
    /\ code.nodes[3].func = "Name"
    /\ code.nodes[4].kind = "FunctionDef"
    /\ code.nodes[4].name = code.nodes[3].id

\* C6 as stated: the edge A.m -> helper exists and isolatedFunctions holds
\* neither helper nor A.m.
C6_NeitherIsolated ==
    Succeeded /\ MethodCallsHelper
        => /\ code.nodes[4].name \in CalleesOf(QualName(code, 2))
           /\ code.nodes[4].name \notin Isolated
           /\ QualName(code, 2) \notin Isolated

\* C6 amended: the edge A.m -> helper exists, helper is not isolated, and
\* A.m, which no call in the file names, is listed as isolated.
C6_MethodIsolatedHelperNot ==
    Succeeded /\ MethodCallsHelper
        => /\ code.nodes[4].name \in CalleesOf(QualName(code, 2))
           /\ code.nodes[4].name \notin Isolated
           /\ QualName(code, 2) \in Isolated

C6_Witness ==
    /\ Succeeded
    /\ code = FixtureScenario
    /\ "helper" \in CalleesOf("A.m")
    /\ Isolated = {"A.m"}

\* C7: isolatedFunctions is exactly the set of defined functions (by
\* qualified name) that are in no caller's callee set; a function no call
\* expression of the file names is therefore listed.
C7_IsolatedExact ==
    Succeeded
        => /\ Isolated = {f \in DefinedNames(code) :
                             \A r \in Relationships : f \notin r.callees}
           /\ \A i \in FuncNodes(code) :
                 (\A j \in CallNodes(code) :
                     _extract_call_info(code.nodes[j]).name # QualName(code, i))
                     => QualName(code, i) \in Isolated

C7_Witness ==
    /\ Succeeded
    /\ code = FixtureUnused
    /\ Isolated = {"unused"}

\* C8: recursiveFunctions is exactly the set of callers whose own qualified
\* name is in their callee set; a top-level function that calls itself by
\* its bare name is listed.
C8_RecursiveExact ==
    Succeeded
        => /\ Recursive = {r.caller : r \in {x \in Relationships : x.caller \in x.callees}}
           /\ \A i \in FuncNodes(code) :
                 (/\ code.parent[i] = 0
                  /\ \E j \in CallNodes(code) :
                        /\ Enclosing(code, j, FuncKinds) = i
                        /\ code.nodes[j].func = "Name"
                        /\ code.nodes[j].id = code.nodes[i].name)
                     => code.nodes[i].name \in Recursive

C8_Witness ==
    /\ Succeeded
    /\ code = FixtureFact
    /\ Recursive = {"fact"}

(***************************************************************************)
(* The tool wrappers, read against the environment the call ran in.        *)
(***************************************************************************)
\* the availability flag the constructed analyzer holds for a tool
Available(tool) ==
    CASE tool = "pyright" -> pyright_available
      [] tool = "mypy"    -> mypy_available
      [] tool = "bandit"  -> bandit_available
      [] tool = "codeql"  -> codeql_available

Called == tool_result # NoCall

ToolsUsed == {tool_result.summary.toolsUsed[i] :
                 i \in 1..Len(tool_result.summary.toolsUsed)}

\* the other tool wrapped by the same analyzer
OtherTool(tool) ==
    CASE tool = "pyright" -> "mypy"
      [] tool = "mypy"    -> "pyright"
      [] tool = "bandit"  -> "codeql"
      [] tool = "codeql"  -> "bandit"

\* the findings a tool wrote in the environment of the last call
Written(tool) == tool_env[tool].report

NumWritten(tool, sev) ==
    Cardinality({i \in 1..Len(Written(tool)) : Written(tool)[i].severity \in sev})

\* the summary counts show exactly what the one working tool reported
SummaryShows(tool) ==
    IF tool \in {"pyright", "mypy"}
    THEN /\ Len(tool_result[tool].diagnostics) = Len(Written(tool))
         /\ tool_result.summary.totalErrors = NumWritten(tool, {"error"})
         /\ tool_result.summary.totalWarnings = NumWritten(tool, {"warning", "note"})
         /\ tool_result.summary.filesAnalyzed =
                Cardinality({Written(tool)[i].file : i \in 1..Len(Written(tool))})
    ELSE /\ Len(tool_result[tool].vulnerabilities) = Len(Written(tool))
         /\ tool_result.summary.totalVulnerabilities = Len(Written(tool))
         /\ tool_result.summary.severityBreakdown.high = NumWritten(tool, {"HIGH"})
         /\ tool_result.summary.severityBreakdown.medium = NumWritten(tool, {"MEDIUM"})
         /\ tool_result.summary.severityBreakdown.low = NumWritten(tool, {"LOW"})

MissingToolIsNull ==
    Called =>
        \A tool \in LiveTools :
            ~Available(tool) =>
                /\ tool_result[tool] = NoneRec
                /\ tool \notin ToolsUsed
                /\ (Available(OtherTool(tool)) /\ tool_env[OtherTool(tool)].b = "ok") =>
                      /\ OtherTool(tool) \in ToolsUsed
                      /\ SummaryShows(OtherTool(tool))

\* a call made in the environment of the call before it
RepeatedCall ==
    /\ Called
    /\ tool_env = env
    /\ tool_result' # tool_result

\* C9: when the analyzer found a tool's binary unavailable, the result of
\* analyze_types / analyze_security has null in that tool's field and leaves
\* the tool out of toolsUsed, while the other tool's field and the summary
\* counts carry what the other tool reported; calling again in the same
\* environment returns an equal result.
C9_MissingToolNullAndRepeatable ==
    /\ []MissingToolIsNull
    /\ [][~RepeatedCall]_vars

\* mypy was not found, pyright reported an error, and the call was repeated
C9_Witness ==
    /\ tool_pc = "type"
    /\ Called
    /\ repeated
    /\ ~mypy_available
    /\ tool_result.mypy = NoneRec
    /\ tool_result.summary.toolsUsed = <<"pyright">>
    /\ tool_result.summary.totalErrors = 1

\* the last call ran a tool that is installed and whose run failed
RunFailed(tool) ==
    /\ Called
    /\ tool \in LiveTools
    /\ Available(tool)
    /\ tool_env[tool].b \in {"broken", "timeout", "garbage"}

\* C10: when a tool is installed but its run fails (non-zero exit, timeout,
\* unparsable output), the wrapper's result for that tool is an object
\* carrying an error string, and so differs from the null of an absent tool.
C10_FailedRunCarriesError ==
    \A tool \in AllTools :
        RunFailed(tool) =>
            /\ tool_result[tool] # NoneRec
            /\ "error" \in DOMAIN tool_result[tool]

(***************************************************************************)
(* The walk, read against the directory tree it was given.                 *)
(***************************************************************************)
WalkOver == walk_pc \in {"done", "raised"}

\* the .py files os.walk lists: <<directory index, file index>>
PyFilesOf(t) ==
    {df \in (1..Len(t)) \X (1..MaxFiles) :
        /\ df[2] <= Len(t[df[1]].files)
        /\ EndsWithPy(t[df[1]].files[df[2]].name)}

\* where the CodeFile record of a file shows up in the returned modules
Places(result, rel) ==
    {mk \in (1..Len(result)) \X (1..Len(tree) * MaxFiles) :
        /\ mk[2] <= Len(result[mk[1]].hasPart)
        /\ result[mk[1]].hasPart[mk[2]].name = rel}

RelOf(t, df) == RelPath(t[df[1]].root, t[df[1]].files[df[2]].name)

\* C1: when a .py file of the tree fails to parse, the walk still returns;
\* the file has a File record with an empty hasPart, and every other .py
\* file of the tree has its record too.
C1_BadFileKeepsWalkGoing ==
    WalkOver =>
        /\ walk_pc = "done"
        /\ \A df \in PyFilesOf(tree) :
              \E mk \in Places(walk_result, RelOf(tree, df)) :
                 ~tree[df[1]].files[df[2]].text.src.ok
                    => walk_result[mk[1]].hasPart[mk[2]].hasPart = <<>>

\* extract_enhanced has just been called on a text the primary parse rejects
PrimaryParseFailed ==
    /\ walk_pc = "build"
    /\ ~CurrentFile.text.src.ok

\* C2: a failing primary parse does not keep extract_enhanced from returning
\* its record: the other side-channel fields are attached, and the
\* error-tolerant (parso) field lists at least one error string.
C2_SideChannelsSurvivePrimaryFailure ==
    PrimaryParseFailed =>
        /\ ~enhanced.raised
        /\ {"libcst", "parso", "typeAnalysis", "securityAnalysis", "callGraph",
            "dataFlow"} \subseteq DOMAIN enhanced
        /\ Len(enhanced.parso.parseErrors) >= 1

\* C3: for a tree with at least one .py file, the number of .py files the
\* walk lists equals the sum of the hasPart lengths of the returned modules,
\* and each file's record is in exactly one module.
C3_FilesPartitionedIntoModules ==
    (WalkOver /\ PyFilesOf(tree) # {}) =>
        /\ walk_pc = "done"
        /\ Cardinality(PyFilesOf(tree)) =
              SumSeq([m \in 1..Len(walk_result) |-> Len(walk_result[m].hasPart)])
        /\ \A df \in PyFilesOf(tree) :
              Cardinality(Places(walk_result, RelOf(tree, df))) = 1

(***************************************************************************)
(* The two relationship extractors, read against the traversal.            *)
(***************************************************************************)
\* self.visit(tree) went through every node and returned
TraversalCompleted == code.ok /\ pos > NumNodes /\ stack = <<>>

DFTraversalCompleted == df_code.ok /\ df_pos > DFNumNodes /\ df_stack = <<>>

FailedCallGraph ==
    /\ cg_result.extractionStatus = "failed"
    /\ "error" \in DOMAIN cg_result
    /\ cg_result.error # ""
    /\ cg_result.relationships = <<>>
    /\ cg_result.callDetails = <<>>
    /\ cg_result.functions = <<>>
    /\ cg_result.classes = <<>>

FailedDataFlow ==
    /\ df_result.extractionStatus = "failed"
    /\ "error" \in DOMAIN df_result
    /\ df_result.error # ""
    /\ df_result.flows = <<>>
    /\ df_result.functionVariables = <<>>
    /\ df_result.dataDependencies = <<>>

\* C4: extract_call_relationships and extract_data_flows never raise; a text
\* that does not parse, or an exception during the traversal, gives a bundle
\* with extractionStatus "failed", an error message and empty lists; the
\* status is "success" only when the whole traversal completed.
C4_FailedBundleInsteadOfRaise ==
    /\ pc \in {"idle", "parse", "visit", "done"}
    /\ df_pc \in {"idle", "parse", "visit", "done"}
    /\ pc = "done" =>
          IF TraversalCompleted
          THEN cg_result.extractionStatus = "success"
          ELSE FailedCallGraph
    /\ df_pc = "done" =>
          IF DFTraversalCompleted
          THEN df_result.extractionStatus = "success"
          ELSE FailedDataFlow

\* the traversal had logged calls when the interpreter ran out of frames
C4_Witness ==
    /\ pc = "done"
    /\ FailedCallGraph
    /\ cg_result.error = "RecursionError"
    /\ call_details # <<>>
(***************************************************************************)
(* The subprocess calls of the analyzers, read against a tool that never   *)
(* terminates.                                                             *)
(***************************************************************************)
\* C11: every subprocess call of TypeAnalyzer and SecurityAnalyzer is bounded
\* by a timeout: with a tool that never terminates no call of the analyzer
\* waits forever; the analyzer is constructed and holds the tool as not
\* available (a degraded result for that tool).
C11_NoUnboundedWait ==
    /\ tool_pc # "hung"
    /\ \A tool \in LiveTools : env[tool].b = "hang" => ~Available(tool)

(***************************************************************************)
(* FunctionExtractor, read against the tree of the text.                   *)
(***************************************************************************)
Indices(c) == [j \in 1..Len(c.nodes) |-> j]

\* the function definitions written directly in the body of class node i,
\* in source order
DirectMethods(c, i) ==
    SelectSeq(Indices(c), LAMBDA j : c.parent[j] = i /\ c.nodes[j].kind \in FuncKinds)

\* the class definitions the traversal comes to, in source order: those at
\* module level and those nested in classes only
VisitedClasses(c) ==
    SelectSeq(Indices(c),
              LAMBDA j : /\ c.nodes[j].kind = "ClassDef"
                         /\ \A a \in Ancestors(c.parent, j) \ {0} :
                               c.nodes[a].kind = "ClassDef")

NamesOf(entries) == [m \in 1..Len(entries) |-> entries[m].name]

\* a new extractor has returned from its first extract call
FirstExtract == fe_calls = 1 /\ ~fe_result.raised

\* C12: each class entry of FunctionExtractor lists exactly the function
\* definitions that are direct children of the class body, in source order;
\* a method of a class nested in class C is in the nested class's entry and
\* not in C's.
C12_MethodsAreDirectChildren ==
    FirstExtract =>
        /\ Len(fe_result.classes) = Len(VisitedClasses(fe_text))
        /\ \A k \in 1..Len(fe_result.classes) :
              LET i == VisitedClasses(fe_text)[k]
                  entry == fe_result.classes[k]
                  direct == DirectMethods(fe_text, i)
              IN  /\ entry.name = fe_text.nodes[i].name
                  /\ NamesOf(entry.hasPart) =
                        [m \in 1..Len(direct) |-> fe_text.nodes[direct[m]].name]
                  /\ \A m \in 1..Len(entry.hasPart) :
                        entry.hasPart[m].inClass = entry.name

C12_Witness ==
    /\ FirstExtract
    /\ fe_text = FixtureNestedClass
    /\ NamesOf(fe_result.classes) = <<"C", "D">>
    /\ NamesOf(fe_result.classes[1].hasPart) = <<"a", "c">>
    /\ NamesOf(fe_result.classes[2].hasPart) = <<"b">>

(***************************************************************************)
(* DataFlowAnalyzer, read against the statements of the text.              *)
(***************************************************************************)
DFSucceeded == df_pc = "done" /\ df_result.extractionStatus = "success"

\* statement i is written inside some function definition
InFunction(c, i) ==
    \E a \in Ancestors(c.parent, i) \ {0, i} : c.nodes[a].kind \in FuncKinds

\* the augmented assignments to a plain name inside a function
AugNodes(c) ==
    {i \in 1..Len(c.nodes) :
        /\ c.nodes[i].kind = "AugAssign"
        /\ c.nodes[i].targets[1] # NoTarget
        /\ InFunction(c, i)}

\* the dependency set a dependency dict holds for a variable ({}: no entry)
DepsIn(dd, var) == DictGetDefault(dd, var, {})

AugFlowsAndDependencies ==
    DFSucceeded =>
        \A i \in AugNodes(df_code) :
            LET x == df_code.nodes[i].targets[1]
                v == df_code.nodes[i].value
            IN  /\ \E k \in 1..Len(df_result.flows) :
                      /\ df_result.flows[k].flowType = "augmented_assignment"
                      /\ df_result.flows[k].line = i
                      /\ df_result.flows[k].variable = x
                /\ x \in DepsIn(df_result.dataDependencies, x)
                /\ v.node = "Name" => v.id \in DepsIn(df_result.dataDependencies, x)

\* the visit of an augmented assignment whose value is not a bare name adds
\* the target to its own dependency set and changes nothing else
AugVisitAddsSelfOnly ==
    \A i \in AugNodes(df_code) :
        (/\ DFCanVisit(i)
         /\ df_pos' = i + 1
         /\ df_code.nodes[i].value.node # "Name")
            => \A var \in DictKeySet(data_dependencies) \cup DictKeySet(data_dependencies')
                          \cup {df_code.nodes[i].targets[1]} :
                  DepsIn(data_dependencies', var) =
                      DepsIn(data_dependencies, var)
                          \cup (IF var = df_code.nodes[i].targets[1] THEN {var} ELSE {})

\* C13: an augmented assignment x += v inside a function is recorded as an
\* augmented_assignment flow for x, and the dependency set of x holds x and,
\* when v is a bare name y, also y (so x = 1; x += y gives {x, y}); when v is
\* not a bare name, the self-dependency x is all that is added.
C13_AugAssignDependencies ==
    /\ []AugFlowsAndDependencies
    /\ [][AugVisitAddsSelfOnly]_vars

C13_Witness ==
    /\ DFSucceeded
    /\ df_code = FixtureAug
    /\ DepsIn(df_result.dataDependencies, "x") = {"x", "y"}
    /\ \E k \in 1..Len(df_result.flows) :
          /\ df_result.flows[k].flowType = "augmented_assignment"
          /\ df_result.flows[k].variable = "x"

(***************************************************************************)
(* Qualified names, read against the definitions of the text.              *)
(***************************************************************************)
\* the key under which the traversal registered definition node i: the
\* qualified name of the entry that carries the node's line ({}: the entry
\* was overwritten by another definition)
KeysOf(i) ==
    {function_definitions[k].k :
        k \in {n \in 1..Len(function_definitions) : function_definitions[n].v.line = i}}

\* C14: within one text every function or method definition has a qualified
\* name of its own: after the traversal each definition, nested ones
\* included, still has its entry under its key, and the number of keys
\* equals the number of definitions.
C14_QualifiedNamesUnique ==
    Succeeded =>
        /\ \A i \in FuncNodes(code) : KeysOf(i) # {}
        /\ Len(cg_result.functions) = Cardinality(FuncNodes(code))

(***************************************************************************)
(* An extractor object called again.                                       *)
(***************************************************************************)
\* C15: the result of extract depends on the text alone: whatever texts the
\* extractor object processed before, the call returns what a new extractor
\* returns for the same text.
C15_ResultDependsOnTextOnly ==
    fe_calls >= 1 =>
        LET fresh == extract(fe_text) IN
        IF fresh.raised
        THEN fe_result.raised
        ELSE /\ ~fe_result.raised
             /\ fe_result.classes = fresh.classes
             /\ fe_result.functions = fresh.functions

(***************************************************************************)
(* The modules the walk returns, read against what os.walk listed.         *)
(***************************************************************************)
\* the .py files of directory d, in the order os.walk lists them
PyFilesIn(t, d) == SelectSeq(t[d].files, LAMBDA f : EndsWithPy(f.name))

\* the directories holding at least one .py file, in the order of the walk
ContributingDirs(t) ==
    SelectSeq([d \in 1..Len(t) |-> d], LAMBDA d : PyFilesIn(t, d) # <<>>)

\* C16: the returned modules are one per directory that holds a .py file, in
\* the order the walk first comes to those directories; the root directory's
\* module is named "" and any other by its relative directory; a module
\* holds the records of the files of its directory, in the order the walk
\* listed them, each named by its path relative to the root.
C16_ModulesInWalkOrder ==
    walk_pc = "done" =>
        LET dirs == ContributingDirs(tree) IN
        /\ Len(walk_result) = Len(dirs)
        /\ \A k \in 1..Len(walk_result) :
              LET root == tree[dirs[k]].root
                  listed == PyFilesIn(tree, dirs[k])
              IN  /\ walk_result[k].name = (IF root = "." THEN "" ELSE root)
                  /\ NamesOf(walk_result[k].hasPart) =
                        [m \in 1..Len(listed) |-> RelPath(root, listed[m].name)]

\* the root lists util.py before core.py, a package directory follows
C16_Witness ==
    /\ walk_pc = "done"
    /\ Len(tree) = 2
    /\ tree[2].root = "pkg"
    /\ NamesOf(walk_result) = <<"", "pkg">>
    /\ NamesOf(walk_result[1].hasPart) = <<"util.py", "core.py">>
    /\ NamesOf(walk_result[2].hasPart) = <<"pkg/core.py">>

\* a directory that holds cached artefacts, not sources
IsCacheDir(root) == root = "__pycache__"

\* the relative paths of the records the walk returned
EmittedPaths ==
    UNION {{walk_result[k].hasPart[m].name : m \in 1..Len(walk_result[k].hasPart)} :
              k \in 1..Len(walk_result)}

\* C17: the returned walk holds a record for every file ending in .py that
\* lies outside the cache directories, and no record for a file inside a
\* cache directory such as __pycache__.
C17_CacheDirectoriesSkipped ==
    walk_pc = "done" =>
        \A df \in PyFilesOf(tree) :
            RelOf(tree, df) \in EmittedPaths <=> ~IsCacheDir(tree[df[1]].root)

(***************************************************************************)
(* extract_with_libcst, read against the text it was given.                *)
(***************************************************************************)
\* the text is one libcst can parse the way extract_with_libcst asks it to
LibcstParses(t) == IF t.newline THEN t.src.ok ELSE IsExpression(t.src)

\* C18: extract_with_libcst returns for every text: when the parse fails the
\* result has empty functions, classes and imports lists, a parseError
\* string and an extractionStatus other than "success"; no exception leaves
\* the function.
C18_LibcstReturnsErrorResult ==
    lc_result # NoCall =>
        IF lc_result.raised THEN FALSE
        ELSE IF LibcstParses(lc_text) THEN lc_result.extractionStatus = "success"
        ELSE /\ lc_result.extractionStatus # "success"
             /\ {"functions", "classes", "imports", "parseError"} \subseteq DOMAIN lc_result
             /\ lc_result.functions = <<>>
             /\ lc_result.classes = <<>>
             /\ lc_result.imports = <<>>
             /\ lc_result.parseError # ""

(***************************************************************************)
(* The visitor's context, read against the position in the tree.           *)
(***************************************************************************)
\* the qualified name of the innermost function definition among node n and
\* its ancestors (None: n is in no function)
RECURSIVE FunctionAt(_, _)
FunctionAt(c, n) ==
    IF n = 0 THEN NoneVal
    ELSE IF c.nodes[n].kind \in FuncKinds THEN QualName(c, n)
    ELSE FunctionAt(c, c.parent[n])

\* the name of the innermost class definition among node n and its ancestors
RECURSIVE ClassAt(_, _)
ClassAt(c, n) ==
    IF n = 0 THEN NoneVal
    ELSE IF c.nodes[n].kind = "ClassDef" THEN c.nodes[n].name
    ELSE ClassAt(c, c.parent[n])

\* the entries of the call log written for call node j
EntriesAt(j) == {k \in 1..Len(call_details) : call_details[k].line = j}

\* C19: current_function and current_class follow the nesting of the
\* definitions like a stack: inside the visit of a node they name the
\* innermost enclosing function and class, so the return of a definition's
\* visit leaves the values held before it; both are None before the
\* traversal and after a complete one; a call is logged under the innermost
\* enclosing function definition, and a call outside every function is
\* logged nowhere.
C19_ContextIsAStack ==
    /\ pc \in {"idle", "parse"} =>
          current_function = NoneVal /\ current_class = NoneVal
    /\ pc = "visit" =>
          /\ current_function = FunctionAt(code, Top)
          /\ current_class = ClassAt(code, Top)
    /\ Succeeded =>
          /\ current_function = NoneVal
          /\ current_class = NoneVal
          /\ \A k \in 1..Len(call_details) : call_details[k].line \in CallNodes(code)
          /\ \A j \in CallNodes(code) :
                /\ \A k \in EntriesAt(j) :
                      call_details[k].caller = FunctionAt(code, j)
                /\ FunctionAt(code, j) = NoneVal =>
                      /\ EntriesAt(j) = {}
                      /\ ~DictHas(call_graph, NoneVal)

\* def a():
\*     def b(): ...
\*     b()          -- logged under a, after the visit of b has returned
C19_Witness ==
    /\ Succeeded
    /\ code.parent = <<0, 1, 1>>
    /\ code.nodes[1] = DefNode("FunctionDef", "a")
    /\ code.nodes[2] = DefNode("FunctionDef", "b")
    /\ code.nodes[3] = CallName("b")
    /\ \E k \in EntriesAt(3) : call_details[k].caller = "a"
    /\ current_function = NoneVal

(***************************************************************************)
(* The adjacency structure and the call log of one result.                 *)
(***************************************************************************)
\* the entries of the returned call log written for call node j
LoggedAt(j) ==
    {k \in 1..Len(cg_result.callDetails) : cg_result.callDetails[k].line = j}

\* the callees the returned call log holds for a caller
LoggedCallees(caller) ==
    {cg_result.callDetails[k].callee :
        k \in {n \in 1..Len(cg_result.callDetails) :
                  cg_result.callDetails[n].caller = caller}}

LoggedCallers ==
    {cg_result.callDetails[k].caller : k \in 1..Len(cg_result.callDetails)}

\* the call expressions written inside some function definition
CallsInFunctions(c) == {j \in CallNodes(c) : FunctionAt(c, j) # NoneVal}

\* the callee is a name, an attribute or itself a call
ResolvedCallee(node) == node.func \in {"Name", "Attribute", "Call"}

\* adjacency and log agree, and the counts are those of the callee sets
AdjacencyMatchesLog ==
    /\ \A r \in Relationships :
          /\ r.callees = LoggedCallees(r.caller)
          /\ r.callCount = Cardinality(r.callees)
          /\ r.uniqueCallees = Cardinality(r.callees)
    /\ LoggedCallers = {r.caller : r \in Relationships}
    /\ \A i, j \in 1..Len(cg_result.relationships) :
          cg_result.relationships[i].caller = cg_result.relationships[j].caller => i = j
    /\ cg_result.totalRelationships =
          SumSeq([i \in 1..Len(cg_result.relationships) |->
                     Cardinality(cg_result.relationships[i].callees)])
    /\ cg_result.totalRelationships <= Len(cg_result.callDetails)

\* C20 as stated: after a traversal the adjacency structure and the call log
\* agree, callCount = uniqueCallees = size of the callee set,
\* totalRelationships is the sum of the set sizes and at most the length of
\* the log, and every call expression inside a function has exactly one log
\* entry.
C20_LogHoldsEveryCall ==
    pc = "done" =>
        /\ AdjacencyMatchesLog
        /\ Succeeded =>
              \A j \in CallsInFunctions(code) : Cardinality(LoggedAt(j)) = 1

\* C20 amended: as above, but a call expression inside a function has exactly
\* one log entry when its callee is a name, an attribute or a call, and none
\* when the callee is any other expression (a subscript, a lambda).
C20_LogHoldsEveryResolvedCall ==
    pc = "done" =>
        /\ AdjacencyMatchesLog
        /\ Succeeded =>
              \A j \in CallsInFunctions(code) :
                  Cardinality(LoggedAt(j)) =
                      (IF ResolvedCallee(code.nodes[j]) THEN 1 ELSE 0)

\* def a(): b(); b()  -- one callee, two log entries
C20_Witness ==
    /\ Succeeded
    /\ code.parent = <<0, 1, 1>>
    /\ code.nodes[1] = DefNode("FunctionDef", "a")
    /\ code.nodes[2] = CallName("b")
    /\ code.nodes[3] = CallName("b")
    /\ Len(cg_result.callDetails) = 2
    /\ cg_result.totalRelationships = 1
    /\ \E r \in Relationships : r.caller = "a" /\ r.callees = {"b"} /\ r.callCount = 1

(***************************************************************************)
(* Rankings of the call patterns                                           *)
(***************************************************************************)
\* number of logged call occurrences of callee c
Occurrences(c) ==
    Cardinality({k \in 1..Len(call_details) : call_details[k].callee = c})

\* number of distinct callees logged for caller f
DistinctCallees(f) ==
    Cardinality({call_details[k].callee :
                    k \in {j \in 1..Len(call_details) : call_details[j].caller = f}})

\* position in the log at which a callee / a caller is first encountered
FirstAsCallee(c) ==
    CHOOSE k \in 1..Len(call_details) :
        /\ call_details[k].callee = c
        /\ \A j \in 1..(k - 1) : call_details[j].callee # c

FirstAsCaller(f) ==
    CHOOSE k \in 1..Len(call_details) :
        /\ call_details[k].caller = f
        /\ \A j \in 1..(k - 1) : call_details[j].caller # f

\* x is ranked before y: higher count, or equal count and encountered first
RankedBefore(cx, fx, cy, fy) == cx > cy \/ (cx = cy /\ fx < fy)

Min(x, y) == IF x < y THEN x ELSE y

\* C21 (mostCalledFunctions): the ranking holds min(10, number of logged
\* callees) distinct callees, each with its number of call occurrences, every
\* entry ranked before the next one and before every callee left out, where
\* rank is by count descending and then by first-encountered order.
MostCalledIsTopTen ==
    Succeeded =>
        LET r == cg_result.callPatterns.mostCalledFunctions
            all == {call_details[k].callee : k \in 1..Len(call_details)}
            kept == {r[i].k : i \in 1..Len(r)}
        IN
        /\ Len(r) = Min(TopN, Cardinality(all))
        /\ kept \subseteq all
        /\ \A i \in 1..Len(r) : r[i].v = Occurrences(r[i].k)
        /\ \A i, j \in 1..Len(r) :
              i < j => RankedBefore(r[i].v, FirstAsCallee(r[i].k),
                                    r[j].v, FirstAsCallee(r[j].k))
        /\ \A i \in 1..Len(r) : \A c \in all \ kept :
              RankedBefore(r[i].v, FirstAsCallee(r[i].k),
                           Occurrences(c), FirstAsCallee(c))

\* C21 (mostCallingFunctions): the same for callers, counted by their
\* distinct callees.
MostCallingIsTopTen ==
    Succeeded =>
        LET r == cg_result.callPatterns.mostCallingFunctions
            all == {call_details[k].caller : k \in 1..Len(call_details)}
            kept == {r[i].k : i \in 1..Len(r)}
        IN
        /\ Len(r) = Min(TopN, Cardinality(all))
        /\ kept \subseteq all
        /\ \A i \in 1..Len(r) : r[i].v = DistinctCallees(r[i].k)
        /\ \A i, j \in 1..Len(r) :
              i < j => RankedBefore(r[i].v, FirstAsCaller(r[i].k),
                                    r[j].v, FirstAsCaller(r[j].k))
        /\ \A i \in 1..Len(r) : \A f \in all \ kept :
              RankedBefore(r[i].v, FirstAsCaller(r[i].k),
                           DistinctCallees(f), FirstAsCaller(f))

\* C21: mostCalledFunctions and mostCallingFunctions are the first ten
\* callees / callers by count descending, ties and the cut at ten following
\* first-encountered order.
C21_TopTenRankings == MostCalledIsTopTen /\ MostCallingIsTopTen

\* more than ten callees are logged, the one encountered last has the highest
\* count and comes first, the tied ones follow in the order encountered
C21_Witness ==
    /\ Succeeded
    /\ code = FixtureManyCallees
    /\ DictKeys(cg_result.callPatterns.mostCalledFunctions)
          = <<"c12", "c1", "c2", "c3", "c4", "c5", "c6", "c7", "c8", "c9">>

(***************************************************************************)
(* Risk and coverage labels                                                *)
(***************************************************************************)
RiskLabels == {"HIGH", "MEDIUM", "LOW", "MINIMAL"}

CoverageLabels == {"PARTIAL", "GOOD"}

\* the label _calculate_risk_level gave is the one the thresholds name
RiskLevelFollowsThresholds ==
    sum_pc = "risk" =>
        /\ risk_level \in RiskLabels
        /\ risk_level = "HIGH" <=> risk_counts.high > 0
        /\ risk_level = "MEDIUM" <=> risk_counts.high = 0 /\ risk_counts.medium > 2
        /\ risk_level = "LOW" <=>
              risk_counts.high = 0 /\ risk_counts.medium <= 2 /\ risk_counts.low > 5
        /\ risk_level = "MINIMAL" <=>
              risk_counts.high = 0 /\ risk_counts.medium <= 2 /\ risk_counts.low <= 5

\* the labels of the document-level summary stay inside the two label sets
DocumentLabelsInRange ==
    sum_pc = "summary" =>
        /\ sum_result.security.riskLevel \in RiskLabels
        /\ sum_result.types.coverage \in CoverageLabels

\* C22: the analyzer's risk label is HIGH when high > 0, else MEDIUM when
\* medium > 2, else LOW when low > 5, else MINIMAL, for every severity count;
\* the document-level risk label is one of HIGH, MEDIUM, LOW, MINIMAL and the
\* type coverage label one of PARTIAL, GOOD.
C22_LabelsFollowThresholds == RiskLevelFollowsThresholds /\ DocumentLabelsInRange

\* six low findings, two medium ones and no high one give LOW
C22_Witness ==
    /\ sum_pc = "risk"
    /\ risk_counts.high = 0
    /\ risk_counts.medium = 2
    /\ risk_counts.low = 6
    /\ risk_level = "LOW"

(***************************************************************************)
(* Totals of the document-level summary                                    *)
(***************************************************************************)
\* what one run of the analyzers on the package directory reports
PackageVulnerabilities ==
    SecurityAnalysis(_check_bandit(env), _check_codeql(env), env)
        .summary.totalVulnerabilities

PackageTypeErrors ==
    TypeAnalysis(_check_pyright(env), _check_mypy(env), env).summary.totalErrors

\* number of CodeFile records the walk returned
FilesConverted == SumSeq([m \in 1..Len(walk_result) |-> Len(walk_result[m].hasPart)])

\* C30: the summary's security totalIssues and type totalErrors equal the
\* number of vulnerabilities and type errors the tools report for the
\* package, whatever the number of source files of the package.
C30_FindingsCountedOnce ==
    walk_pc = "converted" /\ FilesConverted > 0 =>
        /\ analysis_metadata.securitySummary.totalIssues = PackageVulnerabilities
        /\ analysis_metadata.typeSummary.totalErrors = PackageTypeErrors

(***************************************************************************)
(* Data transformers                                                       *)
(***************************************************************************)
\* the qualified name of the function whose body statement i belongs to
\* (NoneVal: the statement is outside every function)
OwnerOf(c, i) ==
    LET f == Enclosing(c, i, FuncKinds) IN
    IF f = 0 THEN NoneVal ELSE QualName(c, f)

\* the assignments of function f that bind the plain name x
AssignsTo(c, f, x) ==
    {i \in 1..Len(c.nodes) :
        /\ c.nodes[i].kind = "Assign"
        /\ OwnerOf(c, i) = f
        /\ x \in SeqToSet(c.nodes[i].targets) \ {NoTarget}}

\* the definitions named f that take x as a parameter
ParameterOf(c, f, x) ==
    {i \in FuncNodes(c) : QualName(c, i) = f /\ x \in SeqToSet(c.nodes[i].args)}

VariablesOf(c) ==
    UNION {SeqToSet(c.nodes[i].targets) \cup SeqToSet(c.nodes[i].args) :
              i \in 1..Len(c.nodes)} \ {NoTarget}

\* the variables of f assigned from a call result by some assignment
CallAssigned(c, f) ==
    {x \in VariablesOf(c) :
        \E i \in AssignsTo(c, f, x) : c.nodes[i].value.node = "Call"}

\* the variables of f whose last binding, in source order, is an assignment
\* from a call result
LastCallAssigned(c, f) ==
    {x \in VariablesOf(c) :
        LET events == AssignsTo(c, f, x) \cup ParameterOf(c, f, x) IN
        /\ events # {}
        /\ LET last == CHOOSE i \in events : \A j \in events : j <= i IN
           /\ c.nodes[last].kind = "Assign"
           /\ c.nodes[last].value.node = "Call"}

\* the count dataTransformers lists for f (0: f is not listed)
ListedCount(f) ==
    LET t == df_result.flowPatterns.dataTransformers
        at == {k \in 1..Len(t) : t[k].function = f}
    IN  IF at = {} THEN 0 ELSE t[CHOOSE k \in at : TRUE].transformationCount

ListedOnce ==
    LET t == df_result.flowPatterns.dataTransformers IN
    /\ \A j, k \in 1..Len(t) : t[j].function = t[k].function => j = k
    /\ \A k \in 1..Len(t) :
          /\ t[k].function \in DefinedNames(df_code)
          /\ t[k].transformationCount > 0

\* C23 as stated: a function is listed in dataTransformers exactly when some
\* simple-name assignment in it takes a call result, and transformationCount
\* is the number of variables so assigned.
C23_TransformersAssignedFromCall ==
    DFSucceeded =>
        /\ ListedOnce
        /\ \A f \in DefinedNames(df_code) :
              ListedCount(f) = Cardinality(CallAssigned(df_code, f))

\* C23 narrowed: a function is listed in dataTransformers exactly when, for
\* some variable, the last binding recorded under the function's qualified
\* name is a simple-name assignment from a call result; transformationCount
\* is the number of such variables.
C23_TransformersByLastBinding ==
    DFSucceeded =>
        /\ ListedOnce
        /\ \A f \in DefinedNames(df_code) :
              ListedCount(f) = Cardinality(LastCallAssigned(df_code, f))

\* a method whose variable r holds a call result is listed with count 1
C23_Witness ==
    /\ DFSucceeded
    /\ df_code = FixtureTransformer
    /\ CallAssigned(df_code, "A.m") = {"r"}
    /\ df_result.flowPatterns.dataTransformers
          = <<[function |-> "A.m", transformationCount |-> 1]>>

(***************************************************************************)
(* Function entries of FunctionExtractor                                   *)
(***************************************************************************)
\* the function definitions at module level, in source order
TopFunctions(c) ==
    SelectSeq(Indices(c), LAMBDA j : c.parent[j] = 0 /\ c.nodes[j].kind \in FuncKinds)

\* every function entry of the result, paired with the definition it is for
FunctionEntries ==
    {[entry |-> fe_result.functions[k], node |-> TopFunctions(fe_text)[k]] :
        k \in 1..Len(fe_result.functions)}
    \cup UNION {{[entry |-> fe_result.classes[k].hasPart[m],
                  node |-> DirectMethods(fe_text, VisitedClasses(fe_text)[k])[m]] :
                    m \in 1..Len(fe_result.classes[k].hasPart)} :
                k \in 1..Len(fe_result.classes)}

EntriesMatchDefinitions ==
    /\ Len(fe_result.functions) = Len(TopFunctions(fe_text))
    /\ \A e \in FunctionEntries : e.entry.name = fe_text.nodes[e.node].name

\* the target of a call as the specification words it: receiver.method for a
\* bare-name receiver, the final attribute for any other receiver, else the
\* bare callee name
StatedTarget(node) ==
    IF node.func = "Attribute"
    THEN IF node.value = "Name" THEN node.value_id \o "." \o node.attr ELSE node.attr
    ELSE node.id

StatedTargets(c, i) ==
    {StatedTarget(c.nodes[j]) :
        j \in {k \in CallNodes(c) :
                  IsUnder(c, k, i) /\ c.nodes[k].func \in {"Attribute", "Name"}}}

\* C24: the calls list of a function entry is the set of targets of the call
\* expressions under the function, nested definitions included, where r.m()
\* on a bare-name receiver r is recorded as r.m, a call on any other receiver
\* as the final attribute name, and any other call as the bare callee name.
C24_CallsNameTheReceiver ==
    FirstExtract =>
        /\ EntriesMatchDefinitions
        /\ \A e \in FunctionEntries : e.entry.calls = StatedTargets(fe_text, e.node)

\* C26: the isAsync flag of a function entry is true exactly when the
\* definition is an async def, for module-level functions and for the
\* methods listed under a class.
C26_IsAsyncMatchesDefinition ==
    FirstExtract =>
        /\ EntriesMatchDefinitions
        /\ \A e \in FunctionEntries :
              e.entry.isAsync <=> fe_text.nodes[e.node].kind = "AsyncFunctionDef"

(***************************************************************************)
(* The libcst side channel on texts the primary parser accepts             *)
(***************************************************************************)
LibcstReportsError(r) ==
    r.raised \/ r.extractionStatus # "success" \/ "parseError" \in DOMAIN r

\* C25: for every text ast.parse accepts, the empty file and a single
\* statement without a newline included, extract_with_libcst reports
\* extractionStatus "success" and no parseError; it reports an error only for
\* a text that is not a valid module.
C25_LibcstAcceptsWhatAstAccepts ==
    lc_result # NoCall =>
        /\ lc_text.src.ok =>
              /\ ~lc_result.raised
              /\ lc_result.extractionStatus = "success"
              /\ "parseError" \notin DOMAIN lc_result
        /\ LibcstReportsError(lc_result) => ~lc_text.src.ok

(***************************************************************************)
(* Methods calling themselves through self                                 *)
(***************************************************************************)
\* the function definitions whose qualified name carries a class name
Methods(c) == {i \in FuncNodes(c) : Enclosing(c, i, {"ClassDef"}) # 0}

ClassNameOf(c, i) == c.nodes[Enclosing(c, i, {"ClassDef"})].name

\* the calls self.m() written in the body of the definition i of m
SelfCalls(c, i) ==
    {j \in CallNodes(c) :
        /\ Enclosing(c, j, FuncKinds) = i
        /\ c.nodes[j].func = "Attribute"
        /\ c.nodes[j].value = "Name"
        /\ c.nodes[j].value_id = "self"
        /\ c.nodes[j].attr = c.nodes[i].name}

\* the calls C.m(), C the class name of method i, written inside the
\* functions in callers
ClassReceiverCalls(c, i, callers) ==
    {j \in CallNodes(c) :
        /\ Enclosing(c, j, FuncKinds) \in callers
        /\ c.nodes[j].func = "Attribute"
        /\ c.nodes[j].value = "Name"
        /\ c.nodes[j].value_id = ClassNameOf(c, i)
        /\ c.nodes[j].attr = c.nodes[i].name}

SameNamed(c, i) == {k \in FuncNodes(c) : QualName(c, k) = QualName(c, i)}

\* every self.m() inside m is logged with the callee name self.m
SelfCallsLoggedAsSelf ==
    \A i \in Methods(code) : \A j \in SelfCalls(code, i) :
        \E k \in 1..Len(cg_result.callDetails) :
            /\ cg_result.callDetails[k].line = j
            /\ cg_result.callDetails[k].caller = QualName(code, i)
            /\ cg_result.callDetails[k].callee = "self." \o code.nodes[i].name

\* a method is listed as recursive only if a call C.m() is written in a
\* definition of that qualified name, and is missing from isolatedFunctions
\* only if a call C.m() is written in some function
ListedOnlyThroughClassName ==
    \A i \in Methods(code) :
        /\ QualName(code, i) \in SeqToSet(cg_result.callPatterns.recursiveFunctions)
              => ClassReceiverCalls(code, i, SameNamed(code, i)) # {}
        /\ QualName(code, i) \notin SeqToSet(cg_result.callPatterns.isolatedFunctions)
              => ClassReceiverCalls(code, i, FuncNodes(code)) # {}

\* C27 as stated: self.m() inside method m of class C is logged with callee
\* self.m, which never equals the qualified name C.m; a method is listed as
\* recursive, or missing from isolatedFunctions, only through calls C.m().
C27_SelfNeverNamesTheClass ==
    Succeeded =>
        /\ SelfCallsLoggedAsSelf
        /\ \A i \in Methods(code) :
              SelfCalls(code, i) # {}
                  => "self." \o code.nodes[i].name # QualName(code, i)
        /\ ListedOnlyThroughClassName

\* C27 narrowed: the callee self.m differs from the qualified name C.m unless
\* the class itself is named self; the rest as stated.
C27_SelfDiffersUnlessClassNamedSelf ==
    Succeeded =>
        /\ SelfCallsLoggedAsSelf
        /\ \A i \in Methods(code) :
              SelfCalls(code, i) # {}
                  => ("self." \o code.nodes[i].name = QualName(code, i)
                         <=> ClassNameOf(code, i) = "self")
        /\ ListedOnlyThroughClassName

\* C.m calls self.m(): the log names self.m, C.m is isolated and not recursive
C27_Witness ==
    /\ Succeeded
    /\ code = FixtureSelfCall
    /\ cg_result.callDetails[1].callee = "self.m"
    /\ cg_result.callPatterns.recursiveFunctions = <<>>
    /\ cg_result.callPatterns.isolatedFunctions = <<"C.m">>

(***************************************************************************)
(* Calls outside every function, calls in decorators and default values    *)
(***************************************************************************)
\* the calls written outside every function definition
CallsOutsideFunctions(c) == {j \in CallNodes(c) : Enclosing(c, j, FuncKinds) = 0}

\* the calls placed in the decorators or the default values of definition i
HeaderCalls(c, i) ==
    {j \in CallNodes(c) : c.parent[j] = i /\ c.nodes[j].field # "body"}

\* the names under which the calls written inside functions are recorded
NamesCalledInFunctions(c) ==
    {_extract_call_info(c.nodes[j]).name :
        j \in {k \in CallNodes(c) :
                  /\ Enclosing(c, k, FuncKinds) # 0
                  /\ _extract_call_info(c.nodes[k]) # NoCallInfo}}

\* C28: a call expression outside every function definition gives no edge
\* and no callDetails entry, so a function called from no function is listed
\* in isolatedFunctions; a call in the decorators or default values of a
\* function is recorded with that function itself as caller.
C28_ModuleLevelCallsUnrecorded ==
    Succeeded =>
        /\ \A j \in CallsOutsideFunctions(code) :
              \A k \in 1..Len(cg_result.callDetails) : cg_result.callDetails[k].line # j
        /\ \A r \in Relationships :
              r.callees = {cg_result.callDetails[k].callee :
                              k \in {n \in 1..Len(cg_result.callDetails) :
                                        cg_result.callDetails[n].caller = r.caller}}
        /\ \A f \in DefinedNames(code) :
              f \notin NamesCalledInFunctions(code)
                  => f \in SeqToSet(cg_result.callPatterns.isolatedFunctions)
        /\ \A i \in FuncNodes(code) : \A j \in HeaderCalls(code, i) :
              _extract_call_info(code.nodes[j]) # NoCallInfo
                  => \E k \in 1..Len(cg_result.callDetails) :
                        /\ cg_result.callDetails[k].line = j
                        /\ cg_result.callDetails[k].caller = QualName(code, i)
                        /\ QualName(code, i) \in {r.caller : r \in Relationships}

\* f is called at module level only and is isolated; the calls in its
\* decorator and its default value are logged with f as caller
C28_Witness ==
    /\ Succeeded
    /\ code = FixtureDecorated
    /\ cg_result.callPatterns.isolatedFunctions = <<"f">>
    /\ [k \in 1..Len(cg_result.callDetails) |->
           <<cg_result.callDetails[k].caller, cg_result.callDetails[k].callee>>]
          = <<<<"f", "dflt">>, <<"f", "body">>, <<"f", "deco">>>>

(***************************************************************************)
(* Dependencies are kept per variable name                                 *)
(***************************************************************************)
\* what one statement inside a function adds to the dependencies of x
StatementDeps(node, x) ==
    IF node.kind = "Assign" /\ x \in SeqToSet(node.targets)
    THEN IF node.value.node = "Name" THEN {node.value.id}
         ELSE IF node.value.node = "Call" THEN {"call:" \o _extract_call_name(node.value)}
         ELSE {}
    ELSE IF node.kind = "AugAssign" /\ node.targets[1] = x
    THEN {x} \cup (IF node.value.node = "Name" THEN {node.value.id} ELSE {})
    ELSE {}

\* the one-level dependencies of the name x over the whole text, whatever
\* the function the statement is in
SharedDeps(c, x) ==
    UNION {StatementDeps(c.nodes[i], x) :
              i \in {j \in 1..Len(c.nodes) : InFunction(c, j)}}

\* C29: dataDependencies is keyed by the bare variable name for the whole
\* file: the statements of every function binding a name x add to one set,
\* and complexDependencies lists exactly the names whose one-level set has
\* more than 2 members, with that set (no transitive closure).
C29_DependenciesSharedByName ==
    DFSucceeded =>
        LET complex == df_result.flowPatterns.complexDependencies IN
        /\ DictKeySet(df_result.dataDependencies) \subseteq VariablesOf(df_code)
        /\ \A x \in VariablesOf(df_code) :
              DepsIn(df_result.dataDependencies, x) = SharedDeps(df_code, x)
        /\ {complex[k].variable : k \in 1..Len(complex)}
              = {x \in VariablesOf(df_code) : Cardinality(SharedDeps(df_code, x)) > 2}
        /\ \A j, k \in 1..Len(complex) : complex[j].variable = complex[k].variable => j = k
        /\ \A k \in 1..Len(complex) :
              /\ complex[k].dependencies = SharedDeps(df_code, complex[k].variable)
              /\ complex[k].dependencyCount = Cardinality(complex[k].dependencies)

\* x is bound in f from a and b and in g from c: one set of three members;
\* y, bound from x, depends on x alone
C29_Witness ==
    /\ DFSucceeded
    /\ df_code = FixtureShared
    /\ DepsIn(df_result.dataDependencies, "x") = {"a", "b", "c"}
    /\ DepsIn(df_result.dataDependencies, "y") = {"x"}
    /\ df_result.flowPatterns.complexDependencies
          = <<[variable |-> "x", dependencies |-> {"a", "b", "c"}, dependencyCount |-> 3]>>

====
